---- MODULE Spec2Model ----
(***************************************************************************)
(* A model of the api-dashboard client: the data-access layer of           *)
(* src/src/lib/api.ts, the upload helper (src/unnamed/part_000), the       *)
(* application controller (src/unnamed/part_001) and the image forms of    *)
(* the project and skill screens.                                          *)
(*                                                                         *)
(* The specifications share the variables:                                 *)
(*   SpecApi   the pure calls of api.ts and the upload helper, each        *)
(*             applied once to an input drawn from a bounded set;          *)
(*   Spec      the controller: session, in-flight handlers, lists;         *)
(*   SpecLoad  the initial load alone, over every list length;             *)
(*   SpecData  the project and skill handlers over a loaded dashboard,     *)
(*             SpecDataFair the same with every network call settling;     *)
(*   SpecUrl   the URL screen and the URL handlers with the pagination     *)
(*             buttons, SpecUrlForm the same screen with its validation    *)
(*             and confirmation on the page it opens on;                   *)
(*   SpecScreens  the three management screens, one operation at a time;   *)
(*   SpecSession  the screens together with logout and login;              *)
(*   SpecForm  the project / skill form and its preview URLs.              *)
(***************************************************************************)
EXTENDS Integers, Sequences, FiniteSets, TLC

VARIABLES
    \* SpecApi: the call under test and what it returned
    call, ret,
    \* Spec: durable storage, controller state, in-flight handlers, history
    localStorage, isAuthenticated, activeSection, loading,
    projects, skills, messages, urls, urlPagination, currentUrlPage,
    tasks, sent, event, sessionToken,
    \* SpecForm: the form's state, the blob registry, the submit in flight
    form, blobs, submit, formEvent,
    \* the screens: the mounted screen's own state, the server's records
    screen, server

apiVars  == <<call, ret>>
appVars  == <<localStorage, isAuthenticated, activeSection, loading,
              projects, skills, messages, urls, urlPagination, currentUrlPage,
              tasks, sent, event, sessionToken>>
formVars == <<form, blobs, submit, formEvent>>
dataVars == <<screen, server>>
vars     == <<apiVars, appVars, formVars, dataVars>>

---------------------------------------------------------------------------
(* Bounds of the model.                                                    *)

\* URL / project / skill / message records are the ids 1..MaxRecords.
MaxRecords == 2
\* Pages requested from the URL list are 1..MaxPage.
MaxPage == 2
\* File sizes are drawn from MaxImageSize - SizeSpread .. MaxImageSize + SizeSpread.
SizeSpread == 2
\* Projects the server creates on top of the MaxRecords it starts with.
MaxCreated == 1
\* Pagination records offered to the page-number row have 0..MaxTotalPages pages.
MaxTotalPages == 8
\* Mutation calls that the screens place in one run.
MaxMutations == 2

---------------------------------------------------------------------------
(* JavaScript values, as far as api.ts looks at them.                      *)

Undefined == [t |-> "undefined"]
Null      == [t |-> "null"]
Bool(b)   == [t |-> "boolean", b |-> b]
Num(k)    == [t |-> "number", n |-> k]
Str(s)    == [t |-> "string", s |-> s]
Arr(a)    == [t |-> "array", a |-> a]
Obj(p)    == [t |-> "object", p |-> p]
NoProps   == [k \in {} |-> Undefined]
EmptyObj  == Obj(NoProps)
EmptyArr  == Arr(<<>>)

\* ToBoolean, as `if (v)`, `a && b` and `a || b` apply it.
Truthy(v) ==
    CASE v.t = "undefined" -> FALSE
      [] v.t = "null"      -> FALSE
      [] v.t = "boolean"   -> v.b
      [] v.t = "number"    -> v.n # 0
      [] v.t = "string"    -> v.s # ""
      [] OTHER             -> TRUE

\* a || b
Or(a, b) == IF Truthy(a) THEN a ELSE b

\* v.k for a v that is neither null nor undefined.
Get(v, k) ==
    CASE v.t = "object" -> IF k \in DOMAIN v.p THEN v.p[k] ELSE Undefined
      [] v.t = "array"  -> IF k = "length" THEN Num(Len(v.a)) ELSE Undefined
      [] v.t = "string" -> IF k = "length" THEN Num(Len(v.s)) ELSE Undefined
      [] OTHER          -> Undefined

\* v.k throws a TypeError exactly for these.
Nullish(v) == v.t \in {"undefined", "null"}

IsArray(v) == v.t = "array"

\* { ...a, ...b }
Spread(a, b) ==
    [k \in DOMAIN a \cup DOMAIN b |-> IF k \in DOMAIN b THEN b[k] ELSE a[k]]

\* The outcome of a call: a value, or an error thrown / a rejected promise.
Return(v) == [threw |-> FALSE, value |-> v]
Throw(e)  == [threw |-> TRUE, error |-> e]

---------------------------------------------------------------------------
(* Durable storage: a map from the keys present to strings.                *)

Tokens == {"tokA", "tokB"}

getItem(storage, key) ==
    IF key \in DOMAIN storage THEN Str(storage[key]) ELSE Null
setItem(storage, key, value) ==
    [k \in DOMAIN storage \cup {key} |-> IF k = key THEN value ELSE storage[k]]
removeItem(storage, key) ==
    [k \in DOMAIN storage \ {key} |-> storage[k]]

\* Every content this client can leave in storage.
Storages ==
    {NoProps, [isAuthenticated |-> "true"]}
    \cup {[authToken |-> tk] : tk \in Tokens}
    \cup {[authToken |-> tk, isAuthenticated |-> "true"] : tk \in Tokens}

---------------------------------------------------------------------------
(* src/src/lib/api.ts: the HTTP wrapper.                                   *)

getAuthToken(storage) == getItem(storage, "authToken")

createHeaders_noAuth(additionalHeaders, isFormData, storage) ==
    IF ~isFormData
    THEN Spread(additionalHeaders, "Content-Type" :> "application/json")
    ELSE additionalHeaders

createHeaders(additionalHeaders, isFormData, storage) ==
    LET h1 == IF ~isFormData
              THEN Spread(additionalHeaders, "Content-Type" :> "application/json")
              ELSE additionalHeaders
        token == getAuthToken(storage)
    IN  IF Truthy(token)
        THEN Spread(h1, "Authorization" :> ("Bearer " \o token.s))
        ELSE h1

\* options.body instanceof FormData
IsFormData(options) ==
    "body" \in DOMAIN options /\ options.body.t = "FormData"

\* The request that apiRequest hands to fetch: the url and the init object.
apiRequest(url, options, storage) ==
    LET isFormData == IsFormData(options)
        additional == IF "headers" \in DOMAIN options THEN options.headers ELSE NoProps
        defaultOptions ==
            Spread([credentials |-> "include",
                    headers |-> createHeaders(additional, isFormData, storage)],
                   options)
    IN  [url |-> url, init |-> defaultOptions]

\* A response as the callers see it: the fetch promise rejects (net = "error"),
\* or resolves with a status (ok) and a body that parses as JSON or does not.
NotJson == [t |-> "notjson"]
NetworkError == [net |-> "error", ok |-> FALSE, body |-> NotJson]
Response(ok, body) == [net |-> "ok", ok |-> ok, body |-> body]

\* await response.json()
response_json(response) ==
    IF response.body = NotJson THEN Throw("SyntaxError") ELSE Return(response.body)

---------------------------------------------------------------------------
(* src/src/lib/api.ts: the list calls of projects, skills and messages.    *)

\* The body of each getAll after the request: status check, parse, data || [].
ListGetAll_noCheck(response, failure) ==
    IF response.net # "ok" THEN Throw("TypeError: Failed to fetch")
    ELSE LET parsed == response_json(response) IN
         IF parsed.threw THEN parsed
         ELSE IF Nullish(parsed.value) THEN Throw("TypeError")
         ELSE Return(Or(Get(parsed.value, "data"), EmptyArr))

ListGetAll(response, failure) ==
    IF response.net # "ok" THEN Throw("TypeError: Failed to fetch")
    ELSE IF ~response.ok THEN Throw(failure)
    ELSE LET parsed == response_json(response) IN
         IF parsed.threw THEN parsed
         ELSE IF Nullish(parsed.value) THEN Throw("TypeError")
         ELSE Return(Or(Get(parsed.value, "data"), EmptyArr))

projectsAPI_getAll(response) == ListGetAll(response, "Failed to fetch projects")
skillsAPI_getAll(response)   == ListGetAll(response, "Failed to fetch skills")
messagesAPI_getAll(response) == ListGetAll(response, "Failed to fetch messages")

---------------------------------------------------------------------------
(* src/src/lib/api.ts: urlAPI.getAll and its three-way normalization.      *)

PageLimit == 20

\* The branch taken for `result.success && result.data`.
NestedShape_nullish(result, page) ==
    LET Dflt(a, b)     == IF Nullish(a) THEN b ELSE a
        urlsData       == Dflt(Get(Get(result, "data"), "urls"), EmptyArr)
        paginationData == Dflt(Get(Get(result, "data"), "pagination"), EmptyObj)
    IN  [data |-> IF IsArray(urlsData) THEN urlsData ELSE EmptyArr,
         pagination |->
            [currentPage |-> Dflt(Get(paginationData, "currentPage"), Num(page)),
             totalPages  |-> Dflt(Get(paginationData, "totalPages"), Num(1)),
             totalItems  |-> Dflt(Get(paginationData, "totalUrls"),
                                  Get(urlsData, "length")),
             hasNext     |-> Dflt(Get(paginationData, "hasNextPage"), Bool(FALSE)),
             hasPrev     |-> Dflt(Get(paginationData, "hasPrevPage"), Bool(FALSE))]]

NestedShape(result, page) ==
    LET urlsData       == Or(Get(Get(result, "data"), "urls"), EmptyArr)
        paginationData == Or(Get(Get(result, "data"), "pagination"), EmptyObj)
    IN  [data |-> IF IsArray(urlsData) THEN urlsData ELSE EmptyArr,
         pagination |->
            [currentPage |-> Or(Get(paginationData, "currentPage"), Num(page)),
             totalPages  |-> Or(Get(paginationData, "totalPages"), Num(1)),
             totalItems  |-> Or(Get(paginationData, "totalUrls"),
                                Get(urlsData, "length")),
             hasNext     |-> Or(Get(paginationData, "hasNextPage"), Bool(FALSE)),
             hasPrev     |-> Or(Get(paginationData, "hasPrevPage"), Bool(FALSE))]]

\* The fallback branch: a bare array, or anything else as an empty list.
LegacyShape(result, page) ==
    LET data == IF IsArray(result) THEN result ELSE EmptyArr
    IN  [data |-> data,
         pagination |->
            [currentPage |-> Num(page),
             totalPages  |-> Num(1),
             totalItems  |-> Num(Len(data.a)),
             hasNext     |-> Bool(FALSE),
             hasPrev     |-> Bool(FALSE)]]

urlAPI_getAll(response, page, limit) ==
    IF response.net # "ok" THEN Throw("TypeError: Failed to fetch")
    ELSE IF ~response.ok THEN Throw("Failed to fetch URLs")
    ELSE LET parsed == response_json(response) IN
         IF parsed.threw THEN parsed
         ELSE LET result == parsed.value IN
              IF Nullish(result) THEN Throw("TypeError")
              ELSE IF Truthy(Get(result, "success")) /\ Truthy(Get(result, "data"))
                   THEN Return(NestedShape(result, page))
                   ELSE Return(LegacyShape(result, page))

---------------------------------------------------------------------------
(* src/unnamed/part_000: the upload helper.                                *)

StartsWith(s, prefix) ==
    Len(s) >= Len(prefix) /\ SubSeq(s, 1, Len(prefix)) = prefix

MaxImageSize == 5 * 1024 * 1024

validateImageFile_atLeast(file) ==
    IF ~StartsWith(file.type, "image/")
    THEN [valid |-> FALSE, error |-> "File must be an image"]
    ELSE IF file.size >= MaxImageSize
    THEN [valid |-> FALSE, error |-> "File size must be less than 5MB"]
    ELSE [valid |-> TRUE]

validateImageFile(file) ==
    IF ~StartsWith(file.type, "image/")
    THEN [valid |-> FALSE, error |-> "File must be an image"]
    ELSE IF file.size > MaxImageSize
    THEN [valid |-> FALSE, error |-> "File size must be less than 5MB"]
    ELSE [valid |-> TRUE]

---------------------------------------------------------------------------
(* The inputs of SpecApi.                                                  *)

\* The list of the records 1..n.
Listing(n) == [i \in 1..n |-> i]
Lists == {Listing(n) : n \in 0..MaxRecords}

\* A property that a JSON object does not carry reads as undefined, so an
\* object is written with all its properties and Undefined for the missing.
PageFields(cp, tp, tu, hn, hp) ==
    Obj([currentPage |-> cp, totalPages |-> tp, totalUrls |-> tu,
         hasNextPage |-> hn, hasPrevPage |-> hp])
DataField(u, pg)    == Obj([urls |-> u, pagination |-> pg])
Envelope(sv, dv)    == Obj([success |-> sv, data |-> dv])

PageNumbers == {Undefined, Null} \cup {Num(k) : k \in 0..MaxPage}
PageCounts  == {Undefined, Num(0), Num(1), Num(MaxPage + 1)}
ItemCounts  == {Undefined, Num(0), Num(MaxRecords + 3)}
Flags       == {Undefined, Bool(FALSE), Bool(TRUE)}
PaginationValues ==
    {Undefined, Null, Num(1)}
    \cup {PageFields(cp, tp, tu, hn, hp) :
            cp \in PageNumbers, tp \in PageCounts, tu \in ItemCounts,
            hn \in Flags, hp \in Flags}
UrlsValues ==
    {Undefined, Null, EmptyObj, Str("abc"), Num(1)} \cup {Arr(l) : l \in Lists}
DataValues ==
    {Undefined, Null, Num(0), Str("x"), EmptyObj}
    \cup {DataField(u, pg) : u \in UrlsValues, pg \in PaginationValues}
SuccessValues == {Undefined, Bool(FALSE), Bool(TRUE), Num(1)}

\* What a 2xx URL-list response can carry.
UrlBodies ==
    {NotJson, Null, Num(0), Str(""), Bool(TRUE), EmptyObj}
    \cup {Arr(l) : l \in Lists}
    \cup {Envelope(sv, dv) : sv \in SuccessValues, dv \in DataValues}

UrlResponses ==
    {NetworkError, Response(FALSE, NotJson), Response(FALSE, EmptyObj)}
    \cup {Response(TRUE, b) : b \in UrlBodies}

\* What a list response of projects, skills or messages can carry.
ListBodies ==
    {NotJson, Null, Num(0), EmptyObj} \cup {Arr(l) : l \in Lists}
    \cup {Obj([data |-> d]) :
            d \in {Undefined, Null, Num(0), Num(1), Str(""), Bool(FALSE), EmptyObj}
                  \cup {Arr(l) : l \in Lists}}
ListResponses ==
    {NetworkError} \cup {Response(ok, b) : ok \in BOOLEAN, b \in ListBodies}

ListCalls == {"projectsAPI.getAll", "skillsAPI.getAll", "messagesAPI.getAll"}

\* Request options as the callers of apiRequest can build them.
FormDataBody == [t |-> "FormData"]
JsonBody     == [t |-> "string"]
OptionHeaders ==
    {NoProps, "X-Trace" :> "1", "Content-Type" :> "text/plain",
     "Authorization" :> "Basic abc"}
RequestOptions ==
    {NoProps, [method |-> "DELETE"], [credentials |-> "omit"]}
    \cup {[method |-> m, body |-> b] :
            m \in {"POST", "PUT"}, b \in {FormDataBody, JsonBody}}
    \cup {[headers |-> h] : h \in OptionHeaders}
    \cup {[method |-> "POST", body |-> b, headers |-> h] :
            b \in {FormDataBody, JsonBody}, h \in OptionHeaders}

\* Files offered to validateImageFile.
MimeTypes ==
    {"", "image", "image/", "image/png", "image/svg+xml", "Image/png",
     "ximage/png", "text/plain", "application/pdf", "video/image/"}
\* Pagination records offered to the page-number row.
WindowCalls ==
    {[fn |-> "PageNumberRow",
      pagination |-> [currentPage |-> Num(c), totalPages |-> Num(t)]] :
        c \in 0..(MaxTotalPages + 1), t \in 0..MaxTotalPages}

FileSizes ==
    {0, 1} \cup ((MaxImageSize - SizeSpread)..(MaxImageSize + SizeSpread))
Files == {[type |-> ty, size |-> sz] : ty \in MimeTypes, sz \in FileSizes}

ApiCalls ==
    {[fn |-> "urlAPI.getAll", response |-> r, page |-> pg, limit |-> PageLimit] :
        r \in UrlResponses, pg \in 1..MaxPage}
    \cup {[fn |-> f, response |-> r] : f \in ListCalls, r \in ListResponses}
    \cup {[fn |-> "apiRequest", url |-> "/url", options |-> o, storage |-> st] :
            o \in RequestOptions, st \in Storages}
    \cup {[fn |-> "validateImageFile", file |-> f] : f \in Files}

NotCalled == [done |-> FALSE]
Outcome(out) == [done |-> TRUE, out |-> out]

---------------------------------------------------------------------------
(* SpecApi: one call, applied to its input.                                *)

Call_urlAPI_getAll ==
    /\ call.fn = "urlAPI.getAll" /\ ~ret.done
    /\ ret' = Outcome(urlAPI_getAll(call.response, call.page, call.limit))
    /\ UNCHANGED <<call, appVars, formVars, dataVars>>

Call_projectsAPI_getAll ==
    /\ call.fn = "projectsAPI.getAll" /\ ~ret.done
    /\ ret' = Outcome(projectsAPI_getAll(call.response))
    /\ UNCHANGED <<call, appVars, formVars, dataVars>>

Call_skillsAPI_getAll ==
    /\ call.fn = "skillsAPI.getAll" /\ ~ret.done
    /\ ret' = Outcome(skillsAPI_getAll(call.response))
    /\ UNCHANGED <<call, appVars, formVars, dataVars>>

Call_messagesAPI_getAll ==
    /\ call.fn = "messagesAPI.getAll" /\ ~ret.done
    /\ ret' = Outcome(messagesAPI_getAll(call.response))
    /\ UNCHANGED <<call, appVars, formVars, dataVars>>

Call_apiRequest ==
    /\ call.fn = "apiRequest" /\ ~ret.done
    /\ ret' = Outcome(apiRequest(call.url, call.options, call.storage))
    /\ UNCHANGED <<call, appVars, formVars, dataVars>>

Call_validateImageFile ==
    /\ call.fn = "validateImageFile" /\ ~ret.done
    /\ ret' = Outcome(validateImageFile(call.file))
    /\ UNCHANGED <<call, appVars, formVars, dataVars>>

---------------------------------------------------------------------------
(* src/src/lib/api.ts: create and update of projects (skillsAPI has the    *)
(* same two functions over /portfolio/skills).                             *)

\* A FormData with the entries given, and JSON.stringify of a plain object.
FormDataOf(entries) == [t |-> "FormData", entries |-> entries]
PlainObject(props)  == [t |-> "object", p |-> props]
JSON_stringify(v)   == [t |-> "string", json |-> v]

\* `${API_BASE_URL}${path}`, with the query or the id that follows it.
Path(p) == [path |-> p]
PagedPath(p, page, limit) == [path |-> p, page |-> page, limit |-> limit]
ItemPath(p, id) == [path |-> p, id |-> id]

\* The request of projectsAPI.create(project).
projectsAPI_create(project, storage) ==
    LET body == IF project.t = "FormData" THEN project ELSE JSON_stringify(project)
    IN  apiRequest(Path("/portfolio/projects"),
                   [method |-> "POST", body |-> body], storage)

\* The request of projectsAPI.update(id, project).
projectsAPI_update(id, project, storage) ==
    LET body == IF project.t = "FormData" THEN project ELSE JSON_stringify(project)
    IN  apiRequest(ItemPath("/portfolio/projects", id),
                   [method |-> "PUT", body |-> body], storage)

---------------------------------------------------------------------------
(* src/src/lib/api.ts: authAPI.                                            *)

\* login after the response arrived: the result of the call and the storage
\* it leaves.
authAPI_login_noStatusCheck(response, storage) ==
    IF response.net # "ok"
    THEN [result |-> Throw("TypeError: Failed to fetch"), storage |-> storage]
    ELSE LET parsed == response_json(response) IN
         IF parsed.threw THEN [result |-> parsed, storage |-> storage]
         ELSE LET data == parsed.value IN
              IF Nullish(data)
              THEN [result |-> Throw("TypeError"), storage |-> storage]
              ELSE LET token  == Get(data, "token")
                       stored == IF Truthy(token)
                                 THEN setItem(storage, "authToken", token.s)
                                 ELSE storage
                   IN  IF ~response.ok
                       THEN [result |-> Throw("Login failed"), storage |-> stored]
                       ELSE [result |-> Return(data), storage |-> stored]

authAPI_login(response, storage) ==
    IF response.net # "ok"
    THEN [result |-> Throw("TypeError: Failed to fetch"), storage |-> storage]
    ELSE IF ~response.ok
    THEN [result |-> Throw("Login failed"), storage |-> storage]
    ELSE LET parsed == response_json(response) IN
         IF parsed.threw THEN [result |-> parsed, storage |-> storage]
         ELSE LET data == parsed.value IN
              IF Nullish(data)
              THEN [result |-> Throw("TypeError"), storage |-> storage]
              ELSE LET token == Get(data, "token") IN
                   IF Truthy(token)
                   THEN [result |-> Return(data),
                         storage |-> setItem(storage, "authToken", token.s)]
                   ELSE [result |-> Return(data), storage |-> storage]

\* logout up to its await: the token is removed before the request is built.
authAPI_logout_removeToken(storage) == removeItem(storage, "authToken")

\* logout after the await: a rejected request is caught and logged, and the
\* status of a response is not read.
authAPI_logout_settle(response) ==
    LET attempt == IF response.net # "ok"
                   THEN Throw("TypeError: Failed to fetch")
                   ELSE Return(Undefined)
    IN  IF attempt.threw THEN Return(Undefined) ELSE attempt

---------------------------------------------------------------------------
(* src/unnamed/part_001: the application controller.                       *)

\* Handlers that can be in flight at once.
MaxTasks == 2

Sections == {"overview", "projects", "skills", "messages", "urls"}

DefaultPagination ==
    [currentPage |-> Num(1), totalPages |-> Num(1), totalItems |-> Num(0),
     hasNext |-> Bool(FALSE), hasPrev |-> Bool(FALSE)]


\* A handler suspended at an await.
Idle == [op |-> "idle"]
LoginTask  == [op |-> "login"]
LogoutTask == [op |-> "logout"]
LoadTask(page) == [op |-> "load", page |-> page]
UrlsTask(page) == [op |-> "urls", page |-> page]

FreeSlots == {i \in 1..MaxTasks : tasks[i] = Idle}
FirstFree == CHOOSE i \in FreeSlots : \A j \in FreeSlots : i <= j

\* The three requests that loadDashboardData issues before its first await.
LoadRequests(storage) ==
    {apiRequest(Path("/portfolio/projects"), NoProps, storage),
     apiRequest(Path("/portfolio/skills"), NoProps, storage),
     apiRequest(Path("/portfolio/contact"), NoProps, storage)}

\* The request of loadUrlsData(page).
UrlsRequest(page, storage) ==
    apiRequest(PagedPath("/url", page, PageLimit), NoProps, storage)

\* What the server can answer, as far as the controller tells answers apart.
HasToken(response) ==
    /\ response.net = "ok" /\ response.body.t = "object"
    /\ Truthy(Get(response.body, "token"))
LoginResponses ==
    {NetworkError, Response(FALSE, EmptyObj), Response(TRUE, NotJson),
     Response(TRUE, Null), Response(TRUE, EmptyObj),
     Response(TRUE, Obj([token |-> Str("")]))}
    \cup {Response(ok, Obj([token |-> Str(tk)])) : ok \in BOOLEAN, tk \in Tokens}
LogoutResponses ==
    {NetworkError, Response(FALSE, EmptyObj), Response(TRUE, EmptyObj)}
FetchResponses ==
    {NetworkError, Response(FALSE, EmptyObj),
     Response(TRUE, Obj([data |-> Arr(Listing(MaxRecords))]))}
\* The same with every list length, for the load taken on its own.
LoadResponses ==
    {NetworkError, Response(FALSE, EmptyObj)}
    \cup {Response(TRUE, Obj([data |-> Arr(l)])) : l \in Lists}
\* A ShortenedUrl as the screen reads it: its _id and its isDeleted flag.
UrlRecord(id, deleted) == [id |-> id, isDeleted |-> deleted]
\* The ids that the server keeps on a page.
PageIds(page) == ((page - 1) * MaxRecords + 1)..(page * MaxRecords)
PageRecords(page) ==
    [i \in 1..MaxRecords |->
        UrlRecord((page - 1) * MaxRecords + i,
                  ((page - 1) * MaxRecords + i) \in server.deleted)]

PageOf(l, page) ==
    Envelope(Bool(TRUE),
             DataField(Arr(l),
                       PageFields(Num(page), Num(MaxPage), Undefined,
                                  Bool(page < MaxPage), Bool(page > 1))))
UrlPageResponses(page) ==
    {NetworkError, Response(FALSE, EmptyObj),
     Response(TRUE, PageOf(PageRecords(page), page))}

AllUrlPageResponses == UNION {UrlPageResponses(pg) : pg \in 1..MaxPage}

\* How a response reads to the user: the history keeps this, not the body.
ResponseClass(response) ==
    IF response.net # "ok" THEN "transport"
    ELSE IF ~response.ok THEN "non2xx"
    ELSE IF HasToken(response) THEN "2xx-token"
    ELSE "2xx"

NoEvent == [op |-> "none", phase |-> "none", resp |-> "none", threw |-> FALSE]
Event(op, phase, resp, threw) ==
    [op |-> op, phase |-> phase, resp |-> resp, threw |-> threw]
\* The join of loadDashboardData, with the handler that reached it and the
\* three responses it was given.
LoadEvent(task, rp, rs, rm) ==
    [op |-> "load", phase |-> "lists", resp |-> "none", threw |-> FALSE,
     task |-> task, got |-> [projects |-> rp, skills |-> rs, messages |-> rm]]
\* The end of loadUrlsData, with the handler that reached it and its response.
UrlsEvent(task, response) ==
    [op |-> "urls", phase |-> "end", resp |-> ResponseClass(response),
     threw |-> FALSE, task |-> task, got |-> response]

\* The state of the mounted screen component: its loading flag, its error
\* message, and for the URL screen its dialog and the record being edited
\* (0: none). A screen
\* starts from this state whenever it is mounted.
NoScreen == [busy |-> FALSE, open |-> FALSE, editing |-> 0, error |-> ""]

\* The server: the ids of the projects it holds, the next id it hands out,
\* the ids of the short URLs it has flagged as deleted, and the number of
\* mutation requests it has been sent.
ServerInit ==
    [projects |-> 1..MaxRecords, next |-> MaxRecords + 1, deleted |-> {},
     received |-> 0]

DataIdle == screen = NoScreen /\ server = ServerInit

\* A handler started by a screen belongs to that mounted instance (live)
\* until the screen is unmounted; its setLoading(false) and
\* handleCloseDialog() then no longer reach the screen that is shown.
Unmount(ts) ==
    [i \in DOMAIN ts |->
        IF "live" \in DOMAIN ts[i] THEN [ts[i] EXCEPT !.live = FALSE] ELSE ts[i]]

\* The screen after the handler has settled, were setLoading(false) the last
\* statement of the try block instead of the finally.
AfterHandler_noFinally(task, succeeded, message) ==
    IF "live" \in DOMAIN task /\ task.live
    THEN IF ~succeeded THEN [screen EXCEPT !.error = message]
         ELSE IF task.ui = "submit" THEN NoScreen
         ELSE [screen EXCEPT !.busy = FALSE]
    ELSE screen

\* The screen after the controller handler awaited by `task` has settled:
\* handleSubmit closes the dialog on success, the catch of handleSubmit and
\* of handleDelete sets the error to the message of what was thrown, and
\* both clear loading in their finally.
AfterHandler(task, succeeded, message) ==
    IF "live" \in DOMAIN task /\ task.live
    THEN IF ~succeeded THEN [screen EXCEPT !.busy = FALSE, !.error = message]
         ELSE IF task.ui = "submit" THEN NoScreen
         ELSE [screen EXCEPT !.busy = FALSE]
    ELSE screen

StoredToken(storage) ==
    IF "authToken" \in DOMAIN storage THEN storage.authToken ELSE ""

AppInit ==
    /\ localStorage \in Storages
    /\ isAuthenticated = FALSE
    /\ activeSection = "overview"
    /\ loading = TRUE
    /\ projects = EmptyArr /\ skills = EmptyArr /\ messages = EmptyArr
    /\ urls = EmptyArr
    /\ urlPagination = DefaultPagination
    /\ currentUrlPage = 1
    /\ tasks = [i \in 1..MaxTasks |-> Idle]
    /\ sent = {}
    /\ event = NoEvent
    /\ sessionToken = StoredToken(localStorage)

\* The controller as the other specifications hold it: not started.
AppIdle ==
    /\ localStorage = NoProps
    /\ isAuthenticated = FALSE
    /\ activeSection = "overview"
    /\ loading = TRUE
    /\ projects = EmptyArr /\ skills = EmptyArr /\ messages = EmptyArr
    /\ urls = EmptyArr
    /\ urlPagination = DefaultPagination
    /\ currentUrlPage = 1
    /\ tasks = [i \in 1..MaxTasks |-> Idle]
    /\ sent = {}
    /\ event = NoEvent
    /\ sessionToken = ""

\* The controller once a stored session has been started and its load has
\* been answered in full: the state the screens are used from.
FirstPage == Response(TRUE, PageOf(PageRecords(1), 1))
AppLoaded ==
    /\ localStorage = [authToken |-> "tokA", isAuthenticated |-> "true"]
    /\ isAuthenticated = TRUE
    /\ activeSection = "overview"
    /\ loading = FALSE
    /\ projects = Arr(Listing(MaxRecords))
    /\ skills = Arr(Listing(MaxRecords))
    /\ messages = Arr(Listing(MaxRecords))
    /\ urls = urlAPI_getAll(FirstPage, 1, PageLimit).value.data
    /\ urlPagination = urlAPI_getAll(FirstPage, 1, PageLimit).value.pagination
    /\ currentUrlPage = 1
    /\ tasks = [i \in 1..MaxTasks |-> Idle]
    /\ sent = {}
    /\ event = UrlsEvent([op |-> "urls", page |-> 1], FirstPage)
    /\ sessionToken = "tokA"

listVars == <<projects, skills, messages, urls, urlPagination>>

\* The mount effects, were the session resolved from the stored token.
Startup_fromToken ==
    /\ loading
    /\ LET isLoggedIn == Truthy(getAuthToken(localStorage)) IN
        /\ isAuthenticated' = isLoggedIn
        /\ loading' = FALSE
        /\ IF isLoggedIn
           THEN /\ tasks' = [tasks EXCEPT ![FirstFree] = LoadTask(currentUrlPage)]
                /\ sent' = LoadRequests(localStorage)
           ELSE /\ tasks' = tasks
                /\ sent' = {}
    /\ event' = Event("startup", "end", "none", FALSE)
    /\ UNCHANGED <<localStorage, activeSection, listVars, currentUrlPage,
                   sessionToken>>
    /\ UNCHANGED <<apiVars, formVars, dataVars>>

\* The mount effects: the flag is read from storage, and the effect on
\* isAuthenticated loads the dashboard when it became true.
Startup ==
    /\ loading
    /\ LET isLoggedIn == getItem(localStorage, "isAuthenticated") = Str("true") IN
        /\ isAuthenticated' = isLoggedIn
        /\ loading' = FALSE
        /\ IF isLoggedIn
           THEN /\ tasks' = [tasks EXCEPT ![FirstFree] = LoadTask(currentUrlPage)]
                /\ sent' = LoadRequests(localStorage)
           ELSE /\ tasks' = tasks
                /\ sent' = {}
    /\ event' = Event("startup", "end", "none", FALSE)
    /\ UNCHANGED <<localStorage, activeSection, listVars, currentUrlPage,
                   sessionToken>>
    /\ UNCHANGED <<apiVars, formVars, dataVars>>

\* The login form is what is rendered while not authenticated; its submit
\* calls handleLogin, which awaits authAPI.login.
LoginSubmit ==
    /\ ~loading /\ ~isAuthenticated
    /\ FreeSlots # {}
    /\ tasks' = [tasks EXCEPT ![FirstFree] = LoginTask]
    /\ sent' = {apiRequest(Path("/auth/login"),
                           [method |-> "POST", body |-> JsonBody], localStorage)}
    /\ event' = Event("login", "call", "none", FALSE)
    /\ UNCHANGED <<localStorage, isAuthenticated, activeSection, loading,
                   listVars, currentUrlPage, sessionToken>>
    /\ UNCHANGED <<apiVars, formVars, dataVars>>

\* handleLogin from the response on: authAPI.login finishes, then the flag
\* is stored and the state set, or the error is logged and rethrown.
LoginSettle(i, response) ==
    /\ tasks[i] = LoginTask
    /\ LET r == authAPI_login(response, localStorage) IN
        IF r.result.threw
        THEN /\ localStorage' = r.storage
             /\ isAuthenticated' = isAuthenticated
             /\ tasks' = [tasks EXCEPT ![i] = Idle]
             /\ sent' = {}
             /\ event' = Event("login", "end", ResponseClass(response), TRUE)
        ELSE /\ localStorage' = setItem(r.storage, "isAuthenticated", "true")
             /\ isAuthenticated' = TRUE
             /\ IF ~isAuthenticated
                THEN /\ tasks' = [tasks EXCEPT ![i] = LoadTask(currentUrlPage)]
                     /\ sent' = LoadRequests(localStorage')
                ELSE /\ tasks' = [tasks EXCEPT ![i] = Idle]
                     /\ sent' = {}
             /\ event' = Event("login", "end", ResponseClass(response), FALSE)
    /\ sessionToken' = IF ResponseClass(response) = "2xx-token"
                       THEN Get(response.body, "token").s
                       ELSE sessionToken
    /\ UNCHANGED <<activeSection, loading, listVars, currentUrlPage>>
    /\ UNCHANGED <<apiVars, formVars, dataVars>>

\* handleLogout up to its await: authAPI.logout removes the token and sends
\* the logout request.
LogoutCall ==
    /\ ~loading /\ isAuthenticated
    /\ FreeSlots # {}
    /\ localStorage' = authAPI_logout_removeToken(localStorage)
    /\ tasks' = [tasks EXCEPT ![FirstFree] = LogoutTask]
    /\ sent' = {apiRequest(Path("/auth/logout"), [method |-> "POST"],
                           localStorage')}
    /\ event' = Event("logout", "call", "none", FALSE)
    /\ sessionToken' = ""
    /\ UNCHANGED <<isAuthenticated, activeSection, loading, listVars,
                   currentUrlPage>>
    /\ UNCHANGED <<apiVars, formVars, dataVars>>

\* handleLogout from the response on.
LogoutSettle(i, response) ==
    /\ tasks[i] = LogoutTask
    /\ LET r == authAPI_logout_settle(response) IN
        /\ localStorage' = removeItem(localStorage, "isAuthenticated")
        /\ isAuthenticated' = FALSE
        /\ activeSection' = "overview"
        /\ event' = Event("logout", "end", ResponseClass(response), r.threw)
    /\ tasks' = Unmount([tasks EXCEPT ![i] = Idle])
    /\ screen' = NoScreen
    /\ sent' = {}
    /\ UNCHANGED <<loading, listVars, currentUrlPage, sessionToken, server>>
    /\ UNCHANGED <<apiVars, formVars>>

\* The sidebar: onSectionChange.
SectionChange(section) ==
    /\ ~loading /\ isAuthenticated
    /\ activeSection' = section
    /\ IF section # activeSection
       THEN screen' = NoScreen /\ tasks' = Unmount(tasks)
       ELSE UNCHANGED <<screen, tasks>>
    /\ sent' = {}
    /\ event' = Event("section", "end", "none", FALSE)
    /\ UNCHANGED <<localStorage, isAuthenticated, loading, listVars,
                   currentUrlPage, sessionToken, server>>
    /\ UNCHANGED <<apiVars, formVars>>

\* loadDashboardData from the join of its three fetches on. Each fetch has
\* its own .catch(() => []), and the code after Promise.all is the first to
\* read any of the three results, so the three responses are taken together
\* here; then the lists are set and loadUrlsData(currentUrlPage) is called
\* with the page of the render that started the handler.
FetchResult(resource, response) ==
    LET r == CASE resource = "projects" -> projectsAPI_getAll(response)
               [] resource = "skills"   -> skillsAPI_getAll(response)
               [] OTHER                 -> messagesAPI_getAll(response)
    IN  IF r.threw THEN EmptyArr ELSE r.value

\* The join, were one catch wrapped around Promise.all: a single failure
\* empties all three lists.
LoadListsSettle_oneCatch(i, rp, rs, rm) ==
    /\ tasks[i].op = "load"
    /\ LET failed == \E r \in {rp, rs, rm} : ~(r.net = "ok" /\ r.ok) IN
        /\ projects' = IF failed THEN EmptyArr ELSE FetchResult("projects", rp)
        /\ skills' = IF failed THEN EmptyArr ELSE FetchResult("skills", rs)
        /\ messages' = IF failed THEN EmptyArr ELSE FetchResult("messages", rm)
    /\ tasks' = [tasks EXCEPT ![i] = [tasks[i] EXCEPT !.op = "urls"]]
    /\ sent' = {UrlsRequest(tasks[i].page, localStorage)}
    /\ event' = LoadEvent(tasks[i], rp, rs, rm)
    /\ UNCHANGED <<localStorage, isAuthenticated, activeSection, loading,
                   urls, urlPagination, currentUrlPage, sessionToken>>
    /\ UNCHANGED <<apiVars, formVars, dataVars>>

LoadListsSettle(i, rp, rs, rm) ==
    /\ tasks[i].op = "load"
    /\ projects' = FetchResult("projects", rp)
    /\ skills' = FetchResult("skills", rs)
    /\ messages' = FetchResult("messages", rm)
    /\ tasks' = [tasks EXCEPT ![i] = [tasks[i] EXCEPT !.op = "urls"]]
    /\ sent' = {UrlsRequest(tasks[i].page, localStorage)}
    /\ event' = LoadEvent(tasks[i], rp, rs, rm)
    /\ UNCHANGED <<localStorage, isAuthenticated, activeSection, loading,
                   urls, urlPagination, currentUrlPage, sessionToken>>
    /\ UNCHANGED <<apiVars, formVars, dataVars>>

\* loadUrlsData from the response on, were the new page added to the list.
UrlsSettle_append(i, response) ==
    /\ tasks[i].op = "urls"
    /\ response \in UrlPageResponses(tasks[i].page)
    /\ LET r == urlAPI_getAll(response, tasks[i].page, PageLimit) IN
        IF r.threw
        THEN /\ urls' = EmptyArr
             /\ urlPagination' = DefaultPagination
        ELSE /\ urls' = Arr(urls.a \o r.value.data.a)
             /\ urlPagination' = r.value.pagination
    /\ tasks' = [tasks EXCEPT ![i] = Idle]
    /\ screen' = AfterHandler(tasks[i], TRUE, "")
    /\ sent' = {}
    /\ event' = UrlsEvent(tasks[i], response)
    /\ UNCHANGED <<localStorage, isAuthenticated, activeSection, loading,
                   projects, skills, messages, currentUrlPage, sessionToken,
                   server>>
    /\ UNCHANGED <<apiVars, formVars>>

\* loadUrlsData from the response on, were the response of a request for
\* another page than the cursor's dropped.
UrlsSettle_dropSuperseded(i, response) ==
    /\ tasks[i].op = "urls"
    /\ response \in UrlPageResponses(tasks[i].page)
    /\ LET r == urlAPI_getAll(response, tasks[i].page, PageLimit) IN
        IF tasks[i].page # currentUrlPage
        THEN UNCHANGED <<urls, urlPagination>>
        ELSE IF r.threw
        THEN /\ urls' = EmptyArr
             /\ urlPagination' = DefaultPagination
        ELSE /\ urls' = r.value.data
             /\ urlPagination' = r.value.pagination
    /\ tasks' = [tasks EXCEPT ![i] = Idle]
    /\ screen' = AfterHandler(tasks[i], TRUE, "")
    /\ sent' = {}
    /\ event' = UrlsEvent(tasks[i], response)
    /\ UNCHANGED <<localStorage, isAuthenticated, activeSection, loading,
                   projects, skills, messages, currentUrlPage, sessionToken,
                   server>>
    /\ UNCHANGED <<apiVars, formVars>>

\* loadUrlsData from the response on, were a failed call to end the session.
UrlsSettle_signOutOnFailure(i, response) ==
    /\ tasks[i].op = "urls"
    /\ response \in UrlPageResponses(tasks[i].page)
    /\ LET r == urlAPI_getAll(response, tasks[i].page, PageLimit) IN
        IF r.threw
        THEN /\ urls' = EmptyArr
             /\ urlPagination' = DefaultPagination
             /\ localStorage' = removeItem(removeItem(localStorage, "authToken"),
                                           "isAuthenticated")
             /\ isAuthenticated' = FALSE
        ELSE /\ urls' = r.value.data
             /\ urlPagination' = r.value.pagination
             /\ UNCHANGED <<localStorage, isAuthenticated>>
    /\ tasks' = [tasks EXCEPT ![i] = Idle]
    /\ screen' = AfterHandler(tasks[i], TRUE, "")
    /\ sent' = {}
    /\ event' = UrlsEvent(tasks[i], response)
    /\ UNCHANGED <<activeSection, loading, projects, skills, messages,
                   currentUrlPage, sessionToken, server>>
    /\ UNCHANGED <<apiVars, formVars>>

\* loadUrlsData from the response on.
UrlsSettle(i, response) ==
    /\ tasks[i].op = "urls"
    /\ response \in UrlPageResponses(tasks[i].page)
    /\ LET r == urlAPI_getAll(response, tasks[i].page, PageLimit) IN
        IF r.threw
        THEN /\ urls' = EmptyArr
             /\ urlPagination' = DefaultPagination
        ELSE /\ urls' = r.value.data
             /\ urlPagination' = r.value.pagination
    /\ tasks' = [tasks EXCEPT ![i] = Idle]
    /\ screen' = AfterHandler(tasks[i], TRUE, "")
    /\ sent' = {}
    /\ event' = UrlsEvent(tasks[i], response)
    /\ UNCHANGED <<localStorage, isAuthenticated, activeSection, loading,
                   projects, skills, messages, currentUrlPage, sessionToken,
                   server>>
    /\ UNCHANGED <<apiVars, formVars>>

Max(a, b) == IF a >= b THEN a ELSE b
Min(a, b) == IF a <= b THEN a ELSE b

\* The row of page numbers, were the window started two before the current
\* page whatever the number of pages.
PageNumberRow_fromCurrent(pagination) ==
    LET total == pagination.totalPages.n
        first == Max(1, pagination.currentPage.n - 2)
        Rendered(pageNumber) == pageNumber <= total
    IN  SelectSeq([i \in 1..Max(0, Min(5, total)) |-> first + (i - 1)], Rendered)

\* The row of page numbers that the URL screen renders: Array.from over
\* min(5, totalPages) indices, without the entries that return null.
PageNumberRow(pagination) ==
    LET total == pagination.totalPages.n
        first == Max(1, Min(total - 4, Max(1, pagination.currentPage.n - 2)))
        Rendered(pageNumber) == pageNumber <= total
    IN  SelectSeq([i \in 1..Max(0, Min(5, total)) |-> first + (i - 1)], Rendered)

\* The numbered page buttons of the URL screen: at most five, around
\* pagination.currentPage.
PageButtons(pagination) ==
    {PageNumberRow(pagination)[k] : k \in DOMAIN PageNumberRow(pagination)}

\* SpecApi: the page-number row, applied to a pagination record.
Call_PageNumberRow ==
    /\ call.fn = "PageNumberRow" /\ ~ret.done
    /\ ret' = Outcome(PageNumberRow(call.pagination))
    /\ UNCHANGED <<call, appVars, formVars, dataVars>>

\* The page a pagination button asks for, when the button is enabled. The
\* controls are rendered for more than one page; Previous and Next count
\* from the controller's cursor and are enabled by the server's flags.
Offered(button, page) ==
    /\ urlPagination.totalPages.n > 1
    /\ ~screen.busy
    /\ CASE button = "prev" ->
                page = currentUrlPage - 1 /\ Truthy(urlPagination.hasPrev)
         [] button = "next" ->
                page = currentUrlPage + 1 /\ Truthy(urlPagination.hasNext)
         [] OTHER -> page \in PageButtons(urlPagination)

PageButtonNames == {"prev", "next", "number"}
PageTask(page) == [op |-> "urls", page |-> page, h |-> "pageChange"]
PageEvent(button, page) ==
    [op |-> "pageChange", phase |-> "call", resp |-> "none", threw |-> FALSE,
     button |-> button, page |-> page]

\* handleUrlPageChange(page) up to its await, from a pagination button of the
\* URL screen (not reachable while the modal dialog is open).
PageChange(button, page) ==
    /\ ~loading /\ isAuthenticated
    /\ activeSection = "urls" /\ ~screen.open
    /\ Offered(button, page)
    /\ FreeSlots # {}
    /\ currentUrlPage' = page
    /\ tasks' = [tasks EXCEPT ![FirstFree] = PageTask(page)]
    /\ sent' = {UrlsRequest(page, localStorage)}
    /\ event' = PageEvent(button, page)
    /\ UNCHANGED <<localStorage, isAuthenticated, activeSection, loading,
                   listVars, sessionToken>>
    /\ UNCHANGED <<apiVars, formVars, dataVars>>

---------------------------------------------------------------------------
(* src/unnamed/part_001 lines 147-192: the mutation handlers, and the      *)
(* screens that call them.                                                 *)

ProjectHandlers ==
    {"handleAddProject", "handleUpdateProject", "handleDeleteProject"}
SkillHandlers == {"handleAddSkill", "handleUpdateSkill", "handleDeleteSkill"}
UrlHandlers == {"handleAddUrl", "handleUpdateUrl", "handleDeleteUrl"}
Handlers == ProjectHandlers \cup SkillHandlers \cup UrlHandlers

\* The resource a handler changes (also the name of its section), and the
\* call of the resource's API module that it awaits first.
ResourceOf(h) ==
    IF h \in ProjectHandlers THEN "projects"
    ELSE IF h \in SkillHandlers THEN "skills" ELSE "urls"
KindOf(h) ==
    IF h \in {"handleAddProject", "handleAddSkill", "handleAddUrl"}
    THEN "create"
    ELSE IF h \in {"handleUpdateProject", "handleUpdateSkill", "handleUpdateUrl"}
         THEN "update" ELSE "delete"
ResourcePath(resource) ==
    CASE resource = "projects" -> "/portfolio/projects"
      [] resource = "skills"   -> "/portfolio/skills"
      [] OTHER                 -> "/url"

\* The body of create(payload) and update(id, payload): projectsAPI and
\* skillsAPI pass a FormData on as it is and stringify anything else, urlAPI
\* stringifies what it is given.
BodyOf(h, payload) ==
    IF ResourceOf(h) # "urls" /\ payload.t = "FormData" THEN payload
    ELSE JSON_stringify(payload)

\* The request of create(payload), update(id, payload) or delete(id).
MutationRequest(h, id, payload, storage) ==
    LET p == ResourcePath(ResourceOf(h)) IN
    CASE KindOf(h) = "create" ->
            apiRequest(Path(p),
                       [method |-> "POST", body |-> BodyOf(h, payload)],
                       storage)
      [] KindOf(h) = "update" ->
            apiRequest(ItemPath(p, id),
                       [method |-> "PUT", body |-> BodyOf(h, payload)],
                       storage)
      [] OTHER -> apiRequest(ItemPath(p, id), [method |-> "DELETE"], storage)

\* The message of the error thrown on a non-2xx status.
FailureOf(h) ==
    CASE h = "handleAddProject"    -> "Failed to create project"
      [] h = "handleUpdateProject" -> "Failed to update project"
      [] h = "handleDeleteProject" -> "Failed to delete project"
      [] h = "handleAddSkill"      -> "Failed to create skill"
      [] h = "handleUpdateSkill"   -> "Failed to update skill"
      [] h = "handleDeleteSkill"   -> "Failed to delete skill"
      [] h = "handleAddUrl"        -> "Failed to create short URL"
      [] h = "handleUpdateUrl"     -> "Failed to update URL"
      [] OTHER                     -> "Failed to delete URL"

\* create, update and delete from the response on, were the status not
\* looked at.
MutationResult_noStatusCheck(h, response) ==
    IF response.net # "ok" THEN Throw("TypeError")
    ELSE response_json(response)

\* create, update and delete from the response on: a rejected fetch and a
\* non-2xx status throw, and a 2xx response is returned as response.json().
MutationResult(h, response) ==
    IF response.net # "ok" THEN Throw("TypeError")
    ELSE IF ~response.ok THEN Throw(FailureOf(h))
    ELSE response_json(response)

MutationResponses ==
    {NetworkError, Response(FALSE, EmptyObj), Response(TRUE, NotJson),
     Response(TRUE, EmptyObj)}

\* A mutation handler suspended at an await: the handler, the record it was
\* called for (0: none), the currentUrlPage of the render it was created in,
\* whether the screen instance that awaits it is still mounted, which of the
\* screen's two callers awaits it, and for its reload the server's projects
\* at the time the list requests went out.
MutationTask(h, id, page, ui) ==
    [op |-> "mutate", h |-> h, id |-> id, page |-> page, live |-> TRUE,
     ui |-> ui, snap |-> {}]
MutationEvent(phase, task, resp, threw) ==
    [op |-> "mutation", phase |-> phase, resp |-> resp, threw |-> threw,
     task |-> task]

\* The server behind the API: a 2xx answer to a create adds a project under
\* a new id, to a delete removes the project; a deleted short URL is kept
\* and flagged.
ServerAfter(task, response) ==
    IF ~(response.net = "ok" /\ response.ok) THEN server
    ELSE IF task.h = "handleAddProject"
         THEN [server EXCEPT !.projects = @ \cup {server.next}, !.next = @ + 1]
    ELSE IF task.h = "handleDeleteProject"
         THEN [server EXCEPT !.projects = @ \ {task.id}]
    ELSE IF task.h = "handleDeleteUrl"
         THEN [server EXCEPT !.deleted = @ \cup {task.id}]
    ELSE server

\* The server hands out at most MaxCreated new ids.
Accepts(task, response) ==
    (task.h = "handleAddProject" /\ response.net = "ok" /\ response.ok)
        => server.next <= MaxRecords + MaxCreated

RECURSIVE Ascending(_)
Ascending(S) ==
    IF S = {} THEN <<>>
    ELSE LET least == CHOOSE x \in S : \A y \in S : x <= y
         IN  <<least>> \o Ascending(S \ {least})

\* What GET /portfolio/projects answers for the projects `held`.
ProjectAnswers(held) ==
    {NetworkError, Response(FALSE, EmptyObj),
     Response(TRUE, Obj([data |-> Arr(Ascending(held))]))}

\* The ids of the rows that a list shows.
RowIds(list) == {list.a[k] : k \in DOMAIN list.a}

\* A screen's call of a handler up to the handler's first await: the screen
\* sets its loading flag (handleSubmit also clears the error), the handler
\* calls the API with the payload the screen hands over.
HandlerCall(h, id, ui, payload) ==
    /\ FreeSlots # {}
    /\ server.received < MaxMutations
    /\ server' = [server EXCEPT !.received = @ + 1]
    /\ screen' = [screen EXCEPT !.busy = TRUE,
                                 !.error = IF ui = "submit" THEN "" ELSE @]
    /\ tasks' = [tasks EXCEPT
                   ![FirstFree] = MutationTask(h, id, currentUrlPage, ui)]
    /\ sent' = {MutationRequest(h, id, payload, localStorage)}
    /\ event' = MutationEvent("call", MutationTask(h, id, currentUrlPage, ui),
                              "none", FALSE)
    /\ UNCHANGED <<localStorage, isAuthenticated, activeSection, loading,
                   listVars, currentUrlPage, sessionToken>>
    /\ UNCHANGED <<apiVars, formVars>>

\* A step of a screen that changes its own state only.
ScreenStep(next, phase) ==
    /\ screen' = next
    /\ sent' = {}
    /\ event' = Event("screen", phase, "none", FALSE)
    /\ UNCHANGED <<localStorage, isAuthenticated, activeSection, loading,
                   listVars, currentUrlPage, tasks, sessionToken, server>>
    /\ UNCHANGED <<apiVars, formVars>>

\* What the user can have in a text field of the project and skill forms.
Texts == {"", "x"}

\* The fields that handleSubmit requires, and the forms as far as these
\* fields go.
RequiredFields(h) ==
    IF ResourceOf(h) = "projects" THEN {"title", "description"} ELSE {"name"}
FormTexts(h) == [RequiredFields(h) -> Texts]
Filled(texts) == \A field \in DOMAIN texts : texts[field] # ""

\* The message of a form whose required fields are not all filled in.
RequiredMessage(h) ==
    IF ResourceOf(h) = "projects" THEN "Please fill in all required fields"
    ELSE "Please enter a skill name"

\* The project or skill screen that handler h belongs to is shown, with its
\* buttons enabled, and holds a row with this id (0: none, for a create).
ScreenShown(h, id) ==
    /\ ~loading /\ isAuthenticated
    /\ h \in ProjectHandlers \cup SkillHandlers
    /\ activeSection = ResourceOf(h)
    /\ ~screen.busy
    /\ IF KindOf(h) = "create" THEN id = 0
       ELSE id \in RowIds(IF ResourceOf(h) = "projects" THEN projects ELSE skills)

\* handleSubmit of the project and skill screens, with `texts` in the
\* required fields of the form; the submit button is disabled while
\* loading. When a required field is empty the error is set and nothing is
\* sent, otherwise the form is handed over as a FormData.
ScreenSubmit(h, id, texts) ==
    /\ ScreenShown(h, id) /\ KindOf(h) # "delete"
    /\ texts \in FormTexts(h)
    /\ IF Filled(texts)
       THEN HandlerCall(h, id, "submit", FormDataOf(texts))
       ELSE ScreenStep([screen EXCEPT !.error = RequiredMessage(h)], "invalid")

\* handleDelete of the project and skill screens, were confirm() not asked.
ScreenDelete_unconfirmed(h, id, confirmed) ==
    /\ ScreenShown(h, id) /\ KindOf(h) = "delete"
    /\ HandlerCall(h, id, "delete", Undefined)

\* handleDelete of the project and skill screens, with the answer to
\* confirm(); the delete buttons are disabled while loading.
ScreenDelete(h, id, confirmed) ==
    /\ ScreenShown(h, id) /\ KindOf(h) = "delete"
    /\ IF confirmed
       THEN HandlerCall(h, id, "delete", Undefined)
       ELSE ScreenStep(screen, "declined")

\* A mutation handler from the response of its API call on, were the reload
\* of a project or skill handler loadUrlsData alone.
MutationSettle_urlsOnly(i, response) ==
    /\ tasks[i].op = "mutate"
    /\ Accepts(tasks[i], response)
    /\ LET task == tasks[i]
           r == MutationResult(task.h, response)
       IN  /\ server' = ServerAfter(task, response)
           /\ IF r.threw
              THEN /\ tasks' = [tasks EXCEPT ![i] = Idle]
                   /\ sent' = {}
                   /\ screen' = AfterHandler(task, FALSE, r.error)
              ELSE /\ tasks' = [tasks EXCEPT ![i] = [task EXCEPT !.op = "urls"]]
                   /\ sent' = {UrlsRequest(task.page, localStorage)}
                   /\ screen' = screen
           /\ event' = MutationEvent("end", task, ResponseClass(response),
                                     r.threw)
    /\ UNCHANGED <<localStorage, isAuthenticated, activeSection, loading,
                   listVars, currentUrlPage, sessionToken>>
    /\ UNCHANGED <<apiVars, formVars>>

\* A mutation handler from the response of its API call on: a throw ends
\* the handler and reaches the screen's catch and finally; otherwise a
\* project or skill handler calls loadDashboardData() and a URL handler
\* loadUrlsData(currentUrlPage), with the page of the handler's own render.
MutationSettle(i, response) ==
    /\ tasks[i].op = "mutate"
    /\ Accepts(tasks[i], response)
    /\ LET task == tasks[i]
           r == MutationResult(task.h, response)
       IN  /\ server' = ServerAfter(task, response)
           /\ IF r.threw
              THEN /\ tasks' = [tasks EXCEPT ![i] = Idle]
                   /\ sent' = {}
                   /\ screen' = AfterHandler(task, FALSE, r.error)
              ELSE IF ResourceOf(task.h) = "urls"
              THEN /\ tasks' = [tasks EXCEPT ![i] = [task EXCEPT !.op = "urls"]]
                   /\ sent' = {UrlsRequest(task.page, localStorage)}
                   /\ screen' = screen
              ELSE /\ tasks' = [tasks EXCEPT ![i] =
                                  [task EXCEPT !.op = "load",
                                               !.snap = server'.projects]]
                   /\ sent' = LoadRequests(localStorage)
                   /\ screen' = screen
           /\ event' = MutationEvent("end", task, ResponseClass(response),
                                     r.threw)
    /\ UNCHANGED <<localStorage, isAuthenticated, activeSection, loading,
                   listVars, currentUrlPage, sessionToken>>
    /\ UNCHANGED <<apiVars, formVars>>

\* The join of a reload, answered from the server's projects as they were
\* when its requests went out.
ReloadSettle(i, rp, rs, rm) ==
    /\ tasks[i].op = "load"
    /\ rp \in ProjectAnswers(tasks[i].snap)
    /\ LoadListsSettle(i, rp, rs, rm)

\* The rows of the URL table, and the rows shown as deleted.
ShownIds == {urls.a[k].id : k \in DOMAIN urls.a}
ShownDeleted(id) ==
    \E k \in DOMAIN urls.a : urls.a[k].id = id /\ urls.a[k].isDeleted

\* The URL screen is what is rendered.
UrlScreenShown == ~loading /\ isAuthenticated /\ activeSection = "urls"

\* The Shorten URL button: handleOpenDialog().
UrlOpenAdd ==
    /\ UrlScreenShown /\ ~screen.open
    /\ ScreenStep([screen EXCEPT !.open = TRUE, !.editing = 0, !.error = ""],
                  "end")

\* The Edit button of a row, disabled for a row shown as deleted:
\* handleOpenDialog(url).
UrlOpenEdit(id) ==
    /\ UrlScreenShown /\ ~screen.open
    /\ id \in ShownIds /\ ~ShownDeleted(id)
    /\ ScreenStep([screen EXCEPT !.open = TRUE, !.editing = id], "end")

\* The Cancel button: handleCloseDialog().
UrlCancel ==
    /\ UrlScreenShown /\ screen.open
    /\ ScreenStep([screen EXCEPT !.open = FALSE, !.editing = 0, !.error = ""],
                  "end")

\* Escape or a click outside the dialog: onOpenChange is setIsDialogOpen.
UrlDismiss ==
    /\ UrlScreenShown /\ screen.open
    /\ ScreenStep([screen EXCEPT !.open = FALSE], "end")

\* What the user can have in the fullUrl field.
ValidUrl == "https://example.com"
UrlTexts == {"", "example.com", "https://", ValidUrl}

\* new URL(text) does not throw: of the texts above, the one that has a
\* scheme and a host.
ParsesAsUrl(text) ==
    \E scheme \in {"http://", "https://"} :
        StartsWith(text, scheme) /\ Len(text) > Len(scheme)

\* What the user can have in the shortenUrl field.
ShortCodes == {"", "abc"}

\* formData of the URL form.
UrlFormData(fullUrl, shortenUrl) ==
    PlainObject([fullUrl |-> Str(fullUrl), shortenUrl |-> Str(shortenUrl)])

\* What handleSubmit hands to the handler: onUpdateUrl(editingUrl._id,
\* formData) and onAddUrl({ fullUrl: formData.fullUrl }).
UrlArgument(h, formData) ==
    IF h = "handleUpdateUrl" THEN formData
    ELSE PlainObject([fullUrl |-> Get(formData, "fullUrl")])

\* handleSubmit of the URL form, were the form handed over unvalidated.
UrlSubmit_unvalidated(fullUrl, shortenUrl) ==
    /\ UrlScreenShown /\ screen.open /\ ~screen.busy
    /\ LET h == IF screen.editing # 0 THEN "handleUpdateUrl"
                ELSE "handleAddUrl"
       IN  HandlerCall(h, screen.editing, "submit",
                       UrlArgument(h, UrlFormData(fullUrl, shortenUrl)))

\* handleSubmit of the URL form up to the awaited handler, with `fullUrl`
\* and `shortenUrl` in the fields: a form that fails validation sets the
\* error and returns.
UrlSubmit(fullUrl, shortenUrl) ==
    /\ UrlScreenShown /\ screen.open /\ ~screen.busy
    /\ IF fullUrl = ""
       THEN ScreenStep([screen EXCEPT !.error = "Please enter a URL to shorten"],
                       "invalid")
       ELSE IF ~ParsesAsUrl(fullUrl)
       THEN ScreenStep([screen EXCEPT !.error = "Please enter a valid URL"],
                       "invalid")
       ELSE LET h == IF screen.editing # 0 THEN "handleUpdateUrl"
                     ELSE "handleAddUrl"
            IN  HandlerCall(h, screen.editing, "submit",
                            UrlArgument(h, UrlFormData(fullUrl, shortenUrl)))

\* The Delete button, were it not disabled while loading.
UrlDelete_whileLoading(id, confirmed) ==
    /\ UrlScreenShown /\ ~screen.open
    /\ id \in ShownIds /\ ~ShownDeleted(id)
    /\ IF confirmed
       THEN HandlerCall("handleDeleteUrl", id, "delete", Undefined)
       ELSE ScreenStep(screen, "declined")

\* The Delete button of a row, disabled while loading and for a row shown
\* as deleted: handleDelete(id), with the answer to confirm().
UrlDelete(id, confirmed) ==
    /\ UrlScreenShown /\ ~screen.open /\ ~screen.busy
    /\ id \in ShownIds /\ ~ShownDeleted(id)
    /\ IF confirmed
       THEN HandlerCall("handleDeleteUrl", id, "delete", Undefined)
       ELSE ScreenStep(screen, "declined")

---------------------------------------------------------------------------
(* The image form of src/src/components/ProjectsManagement.tsx; the skill  *)
(* form of DashboardOverview.tsx lines 154-279 has the same handlers over  *)
(* imageFile / imagePreview.                                               *)

\* Preview URLs that createPreviewUrl can hand out.
MaxBlobs == 3

RECURSIVE Repeat(_, _)
Repeat(c, n) == IF n = 0 THEN "" ELSE c \o Repeat(c, n - 1)

\* URL.createObjectURL: a fresh blob: URL at every call, here the k-th.
BlobUrl(k) == "blob:" \o Repeat("x", k)

\* createPreviewUrl(file): the registry grows by one URL, not yet revoked.
createPreviewUrl(registry) == Append(registry, 0)

\* revokePreviewUrl(url): URL.revokeObjectURL for a blob: URL only. The
\* registry counts the calls per URL, 2 standing for two or more.
revokePreviewUrl(registry, url) ==
    IF StartsWith(url, "blob:")
    THEN [k \in 1..Len(registry) |->
            IF url = BlobUrl(k) /\ registry[k] < 2
            THEN registry[k] + 1
            ELSE registry[k]]
    ELSE registry

\* `if (thumbnailPreview && thumbnailPreview.startsWith('blob:')) revoke`
RevokeIfBlob(registry, preview) ==
    IF preview # "" /\ StartsWith(preview, "blob:")
    THEN revokePreviewUrl(registry, preview)
    ELSE registry

ImageUrls == {"", "https://cdn.example/i.png"}
\* The rows a screen can offer for editing: an id and the stored image URL.
Rows == {[id |-> i, image |-> u] : i \in 1..MaxRecords, u \in ImageUrls}

BlankForm ==
    [isDialogOpen |-> FALSE, editing |-> 0, title |-> "", description |-> "",
     image |-> "", file |-> FALSE, preview |-> "", error |-> "",
     loading |-> FALSE]
NoSubmit == [active |-> FALSE, preview |-> ""]

FormInit ==
    /\ form = BlankForm
    /\ blobs = <<>>
    /\ submit = NoSubmit
    /\ formEvent = "none"

\* resetForm, run in a render whose thumbnailPreview is `preview`.
resetForm(f) ==
    [f EXCEPT !.title = "", !.description = "", !.image = "", !.editing = 0,
              !.error = "", !.file = FALSE, !.preview = ""]

\* handleOpenDialog() of the Add button.
OpenAdd ==
    /\ ~form.isDialogOpen
    /\ form' = [resetForm(form) EXCEPT !.isDialogOpen = TRUE]
    /\ blobs' = RevokeIfBlob(blobs, form.preview)
    /\ formEvent' = "openAdd"
    /\ UNCHANGED submit
    /\ UNCHANGED <<apiVars, appVars, dataVars>>

\* handleOpenDialog(project) of a row's Edit button.
OpenEdit(row) ==
    /\ ~form.isDialogOpen
    /\ form' = [form EXCEPT !.editing = row.id, !.title = "x",
                            !.description = "x", !.image = row.image,
                            !.preview = row.image, !.file = FALSE,
                            !.isDialogOpen = TRUE]
    /\ formEvent' = "openEdit"
    /\ UNCHANGED <<blobs, submit>>
    /\ UNCHANGED <<apiVars, appVars, dataVars>>

\* handleCloseDialog of the Cancel button.
Cancel ==
    /\ form.isDialogOpen
    /\ form' = [resetForm(form) EXCEPT !.isDialogOpen = FALSE]
    /\ blobs' = RevokeIfBlob(blobs, form.preview)
    /\ formEvent' = "cancel"
    /\ UNCHANGED submit
    /\ UNCHANGED <<apiVars, appVars, dataVars>>

\* The dialog is dismissed (Escape, overlay, close icon):
\* onOpenChange={setIsDialogOpen} with false.
Dismiss ==
    /\ form.isDialogOpen
    /\ form' = [form EXCEPT !.isDialogOpen = FALSE]
    /\ formEvent' = "dismiss"
    /\ UNCHANGED <<blobs, submit>>
    /\ UNCHANGED <<apiVars, appVars, dataVars>>

\* The title and description inputs.
TypeText(title, description) ==
    /\ form.isDialogOpen
    /\ form' = [form EXCEPT !.title = title, !.description = description]
    /\ formEvent' = "type"
    /\ UNCHANGED <<blobs, submit>>
    /\ UNCHANGED <<apiVars, appVars, dataVars>>

\* handleFileChange with a file chosen.
FileChange ==
    /\ form.isDialogOpen
    /\ Len(blobs) < MaxBlobs
    /\ LET revoked == RevokeIfBlob(blobs, form.preview)
           created == createPreviewUrl(revoked)
       IN  /\ blobs' = created
           /\ form' = [form EXCEPT !.file = TRUE, !.preview = BlobUrl(Len(created)),
                                   !.image = ""]
    /\ formEvent' = "file"
    /\ UNCHANGED submit
    /\ UNCHANGED <<apiVars, appVars, dataVars>>

\* handleUrlChange(url).
UrlChange(url) ==
    /\ form.isDialogOpen
    /\ form' = [form EXCEPT !.image = url, !.preview = url, !.file = FALSE]
    /\ blobs' = RevokeIfBlob(blobs, form.preview)
    /\ formEvent' = "url"
    /\ UNCHANGED submit
    /\ UNCHANGED <<apiVars, appVars, dataVars>>

\* The preview image fails to load: onError={() => setThumbnailPreview('')}.
PreviewError ==
    /\ form.isDialogOpen
    /\ form.preview # ""
    /\ form' = [form EXCEPT !.preview = ""]
    /\ formEvent' = "previewError"
    /\ UNCHANGED <<blobs, submit>>
    /\ UNCHANGED <<apiVars, appVars, dataVars>>

\* The entry that handleSubmit appends for the image: the file as binary
\* data, else the URL typed, else nothing.
ImageEntry(f) ==
    IF f.file THEN "image" :> [binary |-> TRUE]
    ELSE IF f.image # "" THEN "image" :> [binary |-> FALSE, text |-> f.image]
    ELSE NoProps

\* What handleSubmit hands to the controller, were a form without a file
\* sent as a plain object.
formDataToSend_plainWithoutFile(f) ==
    IF f.file
    THEN FormDataOf(Spread([title |-> f.title, description |-> f.description],
                           ImageEntry(f)))
    ELSE PlainObject(Spread([title |-> f.title, description |-> f.description],
                            ImageEntry(f)))

\* What handleSubmit hands to the controller: a FormData in every case.
formDataToSend(f) ==
    FormDataOf(Spread([title |-> f.title, description |-> f.description],
                      ImageEntry(f)))

\* The request that the controller's handler sends for the form: update
\* for a form that edits a project, create otherwise.
SubmitRequest(f, storage) ==
    IF f.editing # 0
    THEN projectsAPI_update(f.editing, formDataToSend(f), storage)
    ELSE projectsAPI_create(formDataToSend(f), storage)

\* handleSubmit up to its await. The submit button is disabled while loading.
Submit ==
    /\ form.isDialogOpen
    /\ ~form.loading
    /\ IF form.title = "" \/ form.description = ""
       THEN /\ form' = [form EXCEPT !.error = "Please fill in all required fields"]
            /\ submit' = submit
            /\ formEvent' = "invalid"
       ELSE /\ form' = [form EXCEPT !.loading = TRUE, !.error = ""]
            /\ submit' = [active |-> TRUE, preview |-> form.preview,
                          request |-> SubmitRequest(form, localStorage)]
            /\ formEvent' = "submit"
    /\ UNCHANGED blobs
    /\ UNCHANGED <<apiVars, appVars, dataVars>>

\* handleSubmit from the settled handler on: handleCloseDialog of the render
\* that submitted (its thumbnailPreview is the one captured then), or the
\* error; loading is cleared in both.
SubmitSettle(succeeded) ==
    /\ submit.active
    /\ IF succeeded
       THEN /\ form' = [resetForm(form) EXCEPT !.isDialogOpen = FALSE,
                                               !.loading = FALSE]
            /\ blobs' = RevokeIfBlob(blobs, submit.preview)
            /\ formEvent' = "saved"
       ELSE /\ form' = [form EXCEPT !.error = "Failed", !.loading = FALSE]
            /\ blobs' = blobs
            /\ formEvent' = "failed"
    /\ submit' = NoSubmit
    /\ UNCHANGED <<apiVars, appVars, dataVars>>

---------------------------------------------------------------------------
(* The specifications.                                                     *)

ApiInit == call \in ApiCalls \cup WindowCalls /\ ret = NotCalled
ApiIdle == call = [fn |-> "none"] /\ ret = NotCalled

NextApi ==
    \/ Call_urlAPI_getAll
    \/ Call_projectsAPI_getAll
    \/ Call_skillsAPI_getAll
    \/ Call_messagesAPI_getAll
    \/ Call_apiRequest
    \/ Call_validateImageFile
    \/ Call_PageNumberRow

InitApi == ApiInit /\ AppIdle /\ FormInit /\ DataIdle

SpecApi == InitApi /\ [][NextApi]_vars

Init == ApiIdle /\ AppInit /\ FormInit /\ DataIdle

Next ==
    \/ Startup
    \/ LoginSubmit
    \/ \E i \in 1..MaxTasks, r \in LoginResponses : LoginSettle(i, r)
    \/ LogoutCall
    \/ \E i \in 1..MaxTasks, r \in LogoutResponses : LogoutSettle(i, r)
    \/ \E s \in Sections : SectionChange(s)
    \/ \E i \in 1..MaxTasks, rp \in FetchResponses, rs \in FetchResponses,
          rm \in FetchResponses : LoadListsSettle(i, rp, rs, rm)
    \/ \E i \in 1..MaxTasks, r \in AllUrlPageResponses : UrlsSettle(i, r)
    \/ \E b \in PageButtonNames, pg \in 1..MaxPage : PageChange(b, pg)

Spec == Init /\ [][Next]_vars

\* The initial load on its own: startup or login, the join, the URL list.
NextLoad ==
    \/ Startup
    \/ LoginSubmit
    \/ \E i \in 1..MaxTasks, r \in LoginResponses : LoginSettle(i, r)
    \/ \E i \in 1..MaxTasks, rp \in LoadResponses, rs \in LoadResponses,
          rm \in LoadResponses : LoadListsSettle(i, rp, rs, rm)
    \/ \E i \in 1..MaxTasks, r \in AllUrlPageResponses : UrlsSettle(i, r)

SpecLoad == Init /\ [][NextLoad]_vars

\* The project and skill screens over a loaded dashboard.
SubmitHandlers ==
    {h \in ProjectHandlers \cup SkillHandlers : KindOf(h) # "delete"}
DeleteHandlers ==
    {h \in ProjectHandlers \cup SkillHandlers : KindOf(h) = "delete"}
AllProjectAnswers ==
    UNION {ProjectAnswers(held) : held \in SUBSET (1..(MaxRecords + MaxCreated))}
AsHeld == Response(TRUE, Obj([data |-> Arr(Listing(MaxRecords))]))
NextData ==
    \/ \E s \in {"overview", "projects", "skills"} : SectionChange(s)
    \/ \E h \in SubmitHandlers, id \in 0..(MaxRecords + MaxCreated) :
          \E texts \in FormTexts(h) : ScreenSubmit(h, id, texts)
    \/ \E h \in DeleteHandlers, id \in 1..(MaxRecords + MaxCreated),
          confirmed \in BOOLEAN : ScreenDelete(h, id, confirmed)
    \/ \E i \in 1..MaxTasks, r \in MutationResponses : MutationSettle(i, r)
    \/ \E i \in 1..MaxTasks, rp \in AllProjectAnswers :
          ReloadSettle(i, rp, AsHeld, AsHeld)
    \/ \E i \in 1..MaxTasks, r \in AllUrlPageResponses : UrlsSettle(i, r)

InitData == ApiIdle /\ FormInit /\ DataIdle /\ AppLoaded

SpecData == InitData /\ [][NextData]_vars

\* Every network call settles: the response of each request in flight
\* arrives.
EveryCallSettles ==
    \A i \in 1..MaxTasks :
        /\ WF_vars(\E r \in MutationResponses : MutationSettle(i, r))
        /\ WF_vars(\E rp \in AllProjectAnswers :
                     ReloadSettle(i, rp, AsHeld, AsHeld))
        /\ WF_vars(\E r \in AllUrlPageResponses : UrlsSettle(i, r))

SpecDataFair == SpecData /\ EveryCallSettles

\* The URL screen over a loaded dashboard, with its pagination buttons: the
\* forms submitted are valid and the deletes confirmed.
UrlIds == 1..(MaxPage * MaxRecords)
\* One failure and one success stand for the answers here: a rejected fetch
\* and a 2xx body that is not JSON take the same branches as a non-2xx status.
UrlMutationAnswers == {Response(FALSE, EmptyObj), Response(TRUE, EmptyObj)}
UrlPageAnswers == AllUrlPageResponses \ {NetworkError}
NextUrl ==
    \/ \E s \in {"overview", "urls"} : SectionChange(s)
    \/ UrlOpenAdd
    \/ \E id \in UrlIds : UrlOpenEdit(id)
    \/ UrlCancel
    \/ UrlDismiss
    \/ UrlSubmit(ValidUrl, "abc")
    \/ \E id \in UrlIds : UrlDelete(id, TRUE)
    \/ \E i \in 1..MaxTasks, r \in UrlMutationAnswers : MutationSettle(i, r)
    \/ \E i \in 1..MaxTasks, r \in UrlPageAnswers : UrlsSettle(i, r)
    \/ \E b \in PageButtonNames, pg \in 1..MaxPage : PageChange(b, pg)

SpecUrl == InitData /\ [][NextUrl]_vars

\* The URL screen on the page it opens on: its dialog, its validation, its
\* confirmation and its handlers, without the pagination buttons.
NextUrlForm ==
    \/ \E s \in {"overview", "urls"} : SectionChange(s)
    \/ UrlOpenAdd
    \/ \E id \in UrlIds : UrlOpenEdit(id)
    \/ UrlCancel
    \/ UrlDismiss
    \/ \E fullUrl \in UrlTexts, shortenUrl \in ShortCodes :
           UrlSubmit(fullUrl, shortenUrl)
    \/ \E id \in UrlIds, confirmed \in BOOLEAN : UrlDelete(id, confirmed)
    \/ \E i \in 1..MaxTasks, r \in MutationResponses : MutationSettle(i, r)
    \/ \E i \in 1..MaxTasks, r \in AllUrlPageResponses : UrlsSettle(i, r)

SpecUrlForm == InitData /\ [][NextUrlForm]_vars

\* The three management screens over a loaded dashboard, one operation at a
\* time: every submit with a valid and with an invalid form, every delete
\* confirmed and declined, every answer to a create, update or delete.
NextScreens ==
    \/ \E s \in {"overview", "projects", "skills", "urls"} : SectionChange(s)
    \/ \E h \in SubmitHandlers, id \in 0..(MaxRecords + MaxCreated) :
          \E texts \in FormTexts(h) : ScreenSubmit(h, id, texts)
    \/ \E h \in DeleteHandlers, id \in 1..(MaxRecords + MaxCreated),
          confirmed \in BOOLEAN : ScreenDelete(h, id, confirmed)
    \/ UrlOpenAdd
    \/ \E id \in UrlIds : UrlOpenEdit(id)
    \/ UrlCancel
    \/ UrlDismiss
    \/ \E fullUrl \in UrlTexts, shortenUrl \in ShortCodes :
           UrlSubmit(fullUrl, shortenUrl)
    \/ \E id \in UrlIds, confirmed \in BOOLEAN : UrlDelete(id, confirmed)
    \/ \E i \in 1..MaxTasks, r \in MutationResponses : MutationSettle(i, r)
    \/ \E i \in 1..MaxTasks, rp \in AllProjectAnswers :
          ReloadSettle(i, rp, AsHeld, AsHeld)
    \/ \E i \in 1..MaxTasks, r \in AllUrlPageResponses : UrlsSettle(i, r)

\* The loaded dashboard after an update that left the lists as they were:
\* the screens are followed through one more create, update or delete.
DataServed ==
    /\ screen = NoScreen
    /\ server = [ServerInit EXCEPT !.received = MaxMutations - 1]
InitScreens == ApiIdle /\ FormInit /\ DataServed /\ AppLoaded

SpecScreens == InitScreens /\ [][NextScreens]_vars

\* The screens together with logout and login: the session ends and begins
\* again while lists are loaded and a create, update or delete is under
\* way.
SessionAnswers ==
    {Response(FALSE, EmptyObj), Response(TRUE, Obj([token |-> Str("tokA")]))}
NextSession ==
    \/ \E s \in Sections : SectionChange(s)
    \/ \E h \in SubmitHandlers, id \in 0..(MaxRecords + MaxCreated) :
          \E texts \in FormTexts(h) : ScreenSubmit(h, id, texts)
    \/ \E h \in DeleteHandlers, id \in 1..(MaxRecords + MaxCreated),
          confirmed \in BOOLEAN : ScreenDelete(h, id, confirmed)
    \/ UrlOpenAdd
    \/ \E id \in UrlIds : UrlOpenEdit(id)
    \/ UrlCancel
    \/ UrlDismiss
    \/ \E fullUrl \in UrlTexts, shortenUrl \in ShortCodes :
           UrlSubmit(fullUrl, shortenUrl)
    \/ \E id \in UrlIds, confirmed \in BOOLEAN : UrlDelete(id, confirmed)
    \/ \E i \in 1..MaxTasks, r \in MutationResponses : MutationSettle(i, r)
    \/ \E i \in 1..MaxTasks, rp \in FetchResponses :
          LoadListsSettle(i, rp, AsHeld, AsHeld)
    \/ \E i \in 1..MaxTasks, r \in UrlPageAnswers : UrlsSettle(i, r)
    \/ LogoutCall
    \/ \E i \in 1..MaxTasks, r \in SessionAnswers : LogoutSettle(i, r)
    \/ LoginSubmit
    \/ \E i \in 1..MaxTasks, r \in SessionAnswers : LoginSettle(i, r)

SpecSession == InitScreens /\ [][NextSession]_vars

NextForm ==
    \/ OpenAdd
    \/ \E row \in Rows : OpenEdit(row)
    \/ Cancel
    \/ Dismiss
    \/ \E t \in Texts, d \in Texts : TypeText(t, d)
    \/ FileChange
    \/ \E u \in ImageUrls : UrlChange(u)
    \/ PreviewError
    \/ Submit
    \/ \E ok \in BOOLEAN : SubmitSettle(ok)

InitForm == ApiIdle /\ AppIdle /\ FormInit /\ DataIdle

SpecForm == InitForm /\ [][NextForm]_vars

---------------------------------------------------------------------------
(* Properties of the calls of api.ts and the upload helper (SpecApi).      *)

UrlCallDone  == call.fn = "urlAPI.getAll" /\ ret.done
ListCallDone == call.fn \in ListCalls /\ ret.done
Is2xx(response) == response.net = "ok" /\ response.ok

PaginationNames ==
    {"currentPage", "totalPages", "totalItems", "hasNext", "hasPrev"}

\* C1: for every 2xx body that urlAPI.getAll can receive, the call does not
\* fail and returns a list together with a pagination record whose five
\* fields are all defined.
C1_EveryBodyNormalized ==
    (UrlCallDone /\ Is2xx(call.response)) =>
        /\ ~ret.out.threw
        /\ IsArray(ret.out.value.data)
        /\ \A f \in PaginationNames : ret.out.value.pagination[f].t # "undefined"

\* The current nested shape as the claims speak of it: success is true and
\* data is an object.
CurrentShape(body) ==
    /\ body.t = "object"
    /\ Get(body, "success") = Bool(TRUE)
    /\ Get(body, "data").t = "object"

\* A server value counts as given when the property is there and not null.
Given(v) == ~Nullish(v)
IfGiven(v, d)  == IF Given(v) THEN v ELSE d
IfTruthy(v, d) == IF Truthy(v) THEN v ELSE d

\* C2 as claimed: for a current-shape response every pagination field is the
\* server's value if given, else its default, and the list is data.urls
\* (read here for a data.urls that is a list).
C2_DefaultedWhenNotGiven ==
    (UrlCallDone /\ Is2xx(call.response) /\ CurrentShape(call.response.body)) =>
        LET data == Get(call.response.body, "data")
            pg   == Get(data, "pagination")
            out  == ret.out.value
        IN  /\ ~ret.out.threw
            /\ IsArray(Get(data, "urls")) => out.data = Get(data, "urls")
            /\ out.pagination.currentPage =
                  IfGiven(Get(pg, "currentPage"), Num(call.page))
            /\ out.pagination.totalPages = IfGiven(Get(pg, "totalPages"), Num(1))
            /\ out.pagination.totalItems =
                  IfGiven(Get(pg, "totalUrls"), Num(Len(out.data.a)))
            /\ out.pagination.hasNext = IfGiven(Get(pg, "hasNextPage"), Bool(FALSE))
            /\ out.pagination.hasPrev = IfGiven(Get(pg, "hasPrevPage"), Bool(FALSE))

\* C2 as amended: for a current-shape response every pagination field is the
\* server's value when that value is truthy (so not when it is missing, null,
\* 0, false or empty), else its default: the requested page, 1, the length
\* property of data.urls (of the empty list when data.urls is missing or
\* falsy), false and false; the list is data.urls when that is an array and
\* empty otherwise.
C2_DefaultedWhenFalsy ==
    (UrlCallDone /\ Is2xx(call.response) /\ CurrentShape(call.response.body)) =>
        LET data == Get(call.response.body, "data")
            pg   == Get(data, "pagination")
            u    == Get(data, "urls")
            out  == ret.out.value
        IN  /\ ~ret.out.threw
            /\ out.data = IF IsArray(u) THEN u ELSE EmptyArr
            /\ out.pagination.currentPage =
                  IfTruthy(Get(pg, "currentPage"), Num(call.page))
            /\ out.pagination.totalPages = IfTruthy(Get(pg, "totalPages"), Num(1))
            /\ out.pagination.totalItems =
                  IfTruthy(Get(pg, "totalUrls"),
                           IF Truthy(u) THEN Get(u, "length") ELSE Num(0))
            /\ out.pagination.hasNext = IfTruthy(Get(pg, "hasNextPage"), Bool(FALSE))
            /\ out.pagination.hasPrev = IfTruthy(Get(pg, "hasPrevPage"), Bool(FALSE))

\* A current-shape response whose totalPages is given as 0 was normalized to
\* one page, with a non-empty list returned.
C2_Witness ==
    /\ UrlCallDone /\ Is2xx(call.response) /\ CurrentShape(call.response.body)
    /\ Get(Get(call.response.body, "data"), "pagination").t = "object"
    /\ Get(Get(Get(call.response.body, "data"), "pagination"), "totalPages") = Num(0)
    /\ ~ret.out.threw
    /\ ret.out.value.pagination.totalPages = Num(1)
    /\ Len(ret.out.value.data.a) > 0

\* The synthetic single-page envelope around a list.
Synthetic(list, page) ==
    [data |-> Arr(list),
     pagination |-> [currentPage |-> Num(page), totalPages |-> Num(1),
                     totalItems |-> Num(Len(list)),
                     hasNext |-> Bool(FALSE), hasPrev |-> Bool(FALSE)]]

\* The shape the code takes for the nested one: success and data both truthy.
TakenAsNested(body) ==
    /\ body.t = "object"
    /\ Truthy(Get(body, "success")) /\ Truthy(Get(body, "data"))

\* C3: a 2xx response that is not of the nested shape yields the response
\* itself when it is a bare array and an empty list for anything else, in
\* both cases inside the synthetic envelope of the requested page.
C3_LegacyOrEmpty ==
    (UrlCallDone /\ Is2xx(call.response) /\ ~TakenAsNested(call.response.body)) =>
        ret.out = Return(Synthetic(IF call.response.body.t = "array"
                                   THEN call.response.body.a ELSE <<>>,
                                   call.page))

GenericFailure ==
    [f \in ListCalls |->
        CASE f = "projectsAPI.getAll" -> "Failed to fetch projects"
          [] f = "skillsAPI.getAll"   -> "Failed to fetch skills"
          [] OTHER                    -> "Failed to fetch messages"]

DataOf(body) == IF body.t = "object" THEN Get(body, "data") ELSE Undefined

\* C8 as claimed: a list call returns the body's data when the status is 2xx
\* and data is present, an empty sequence when the status is 2xx and data is
\* absent, and fails with the generic error when the status is not 2xx.
C8_DataOrEmptyOrFail ==
    (ListCallDone /\ call.response.net = "ok") =>
        IF ~call.response.ok
        THEN ret.out = Throw(GenericFailure[call.fn])
        ELSE IF Given(DataOf(call.response.body))
        THEN ret.out = Return(DataOf(call.response.body))
        ELSE ret.out = Return(EmptyArr)

\* C8 as amended: a list call fails with the generic error when the status is
\* not 2xx; with a 2xx status it fails with a parse or type error when the
\* body is not JSON or is JSON null, and otherwise returns the body's data
\* when that is truthy and an empty sequence when it is missing or falsy.
C8_TruthyDataOrEmptyOrFail ==
    (ListCallDone /\ call.response.net = "ok") =>
        LET body == call.response.body IN
        IF ~call.response.ok
        THEN ret.out = Throw(GenericFailure[call.fn])
        ELSE IF body = NotJson THEN ret.out = Throw("SyntaxError")
        ELSE IF body = Null THEN ret.out = Throw("TypeError")
        ELSE IF Truthy(DataOf(body)) THEN ret.out = Return(DataOf(body))
        ELSE ret.out = Return(EmptyArr)

\* A 2xx list response whose data is the number 0 came back as an empty list.
C8_Witness ==
    /\ ListCallDone /\ Is2xx(call.response)
    /\ DataOf(call.response.body) = Num(0)
    /\ ret.out = Return(EmptyArr)

\* The MIME types of MimeTypes that begin with image/, and 5 MiB in bytes.
ImageTypes == {"image/", "image/png", "image/svg+xml"}
FiveMiB == 5242880

\* C9: validateImageFile returns valid = false, with an error, for a type
\* that does not start with image/ and for a size above 5 MiB, and valid =
\* true for every other file.
C9_ValidateImageFile ==
    (call.fn = "validateImageFile" /\ ret.done) =>
        /\ ret.out.valid = (call.file.type \in ImageTypes /\ call.file.size <= FiveMiB)
        /\ ~ret.out.valid => "error" \in DOMAIN ret.out

\* An image of exactly 5 MiB was validated and accepted.
C9_Witness ==
    /\ call.fn = "validateImageFile" /\ ret.done
    /\ call.file.type = "image/png" /\ call.file.size = FiveMiB
    /\ ret.out.valid

\* C30: for a pagination record with more than one page whose current page
\* is one of its pages, the row of page numbers has min(5, totalPages)
\* entries, each one more than the entry before it, all of them pages of the
\* record, and the current page among them.
C30_PageNumberWindow ==
    (/\ call.fn = "PageNumberRow" /\ ret.done
     /\ call.pagination.totalPages.n > 1
     /\ call.pagination.currentPage.n \in 1..call.pagination.totalPages.n) =>
        LET row == ret.out
            total == call.pagination.totalPages.n
        IN  /\ Len(row) = Min(5, total)
            /\ \A k \in 1..(Len(row) - 1) : row[k + 1] = row[k] + 1
            /\ \A k \in 1..Len(row) : row[k] \in 1..total
            /\ \E k \in 1..Len(row) : row[k] = call.pagination.currentPage.n

\* The row for the last of more than five pages: the window ends there.
C30_Witness ==
    /\ call.fn = "PageNumberRow" /\ ret.done
    /\ call.pagination.totalPages.n = MaxTotalPages
    /\ call.pagination.currentPage.n = MaxTotalPages
    /\ ret.out = [i \in 1..5 |-> MaxTotalPages - 5 + i]

---------------------------------------------------------------------------
(* Properties of the controller (Spec).                                    *)

AuthorizationOf(request) ==
    IF "Authorization" \in DOMAIN request.init.headers
    THEN request.init.headers["Authorization"]
    ELSE ""

\* C4: every request carries Authorization: Bearer <token> of the last login
\* that succeeded with a token, as long as logout has not been called since,
\* and no request carries an Authorization header once logout has been
\* called, whatever becomes of the logout request. sessionToken is the
\* history of exactly these two events.
C4_BearerFollowsSession ==
    \A request \in sent :
        AuthorizationOf(request) =
            IF sessionToken = "" THEN "" ELSE "Bearer " \o sessionToken

\* A login succeeded with a token and the fetches it triggered carry it.
C4_Witness ==
    /\ event.op = "login" /\ event.phase = "end" /\ event.resp = "2xx-token"
    /\ sent # {}
    /\ \A request \in sent : AuthorizationOf(request) = "Bearer " \o sessionToken

\* C5: when handleLogout ends, the durable flag and the token are removed,
\* the in-memory flag is false and the section is overview, and the handler
\* did not fail, for every outcome of the logout request.
C5_LogoutClearsSession ==
    (event.op = "logout" /\ event.phase = "end") =>
        /\ "isAuthenticated" \notin DOMAIN localStorage
        /\ "authToken" \notin DOMAIN localStorage
        /\ ~isAuthenticated
        /\ activeSection = "overview"
        /\ ~event.threw

\* C6: a login whose request failed (transport failure or non-2xx status)
\* leaves storage and the in-memory flag as they were and rethrows; and a
\* token is written to storage only by a login whose response is 2xx and
\* carries a token.
C6_LoginFailureKeepsSession ==
    [][/\ (event'.op = "login" /\ event'.phase = "end"
             /\ event'.resp \in {"transport", "non2xx"})
          => (/\ localStorage' = localStorage
              /\ isAuthenticated' = isAuthenticated
              /\ event'.threw)
       /\ (/\ StoredToken(localStorage') # ""
           /\ StoredToken(localStorage') # StoredToken(localStorage))
          => (/\ event'.op = "login" /\ event'.phase = "end"
              /\ event'.resp = "2xx-token")]_vars

\* A login was refused with a non-2xx status and rethrown to the form.
C6_Witness ==
    /\ event.op = "login" /\ event.phase = "end" /\ event.resp = "non2xx"
    /\ event.threw
    /\ ~isAuthenticated

ResourcePaths ==
    [projects |-> "/portfolio/projects", skills |-> "/portfolio/skills",
     messages |-> "/portfolio/contact"]
Resources == DOMAIN ResourcePaths
PathsOf(requests) == {request.url.path : request \in requests}

\* What a list fetch leaves after its own catch: the data of a 2xx response,
\* nothing when the fetch failed.
Tolerated(response) ==
    IF Is2xx(response) /\ response.body.t = "object"
    THEN Get(response.body, "data")
    ELSE EmptyArr

\* C11: entering the authenticated state sends the projects, skills and
\* messages fetches together; at their join, for every subset of the three
\* that failed, each failed resource's list is empty, each other list is
\* the data of its own response, and the URL-list request is sent.
C11_IndependentFetches ==
    /\ ((event.op \in {"startup", "login"} /\ event.phase = "end" /\ sent # {}) =>
            PathsOf(sent) = {ResourcePaths[r] : r \in Resources})
    /\ ((event.op = "load" /\ event.phase = "lists") =>
            /\ projects = Tolerated(event.got.projects)
            /\ skills = Tolerated(event.got.skills)
            /\ messages = Tolerated(event.got.messages)
            /\ PathsOf(sent) = {"/url"})

\* Only the skills fetch failed: skills is empty, the other two lists are
\* their own, different, responses, and the URL-list request went out.
C11_Witness ==
    /\ event.op = "load" /\ event.phase = "lists"
    /\ ~Is2xx(event.got.skills)
    /\ Is2xx(event.got.projects) /\ Is2xx(event.got.messages)
    /\ skills = EmptyArr
    /\ projects = Arr(Listing(1)) /\ messages = Arr(Listing(MaxRecords))
    /\ PathsOf(sent) = {"/url"}

\* The handler that a load or URL-list step belongs to: the effect on
\* isAuthenticated, a page button, or a mutation handler.
HandlerOf(task) == IF "h" \in DOMAIN task THEN task.h ELSE "effect"

\* C12: on every entry into the authenticated state no URL-list request
\* goes out with the three list requests, and at their join the URL-list
\* request that is sent asks for page 1.
C12_FirstPageAfterLists ==
    /\ ((event.op \in {"startup", "login"} /\ event.phase = "end") =>
            "/url" \notin PathsOf(sent))
    /\ ((event.op = "load" /\ event.phase = "lists"
            /\ HandlerOf(event.task) = "effect") =>
            sent = {UrlsRequest(1, localStorage)})

C19_StartupFromStorage ==
    /\ (event.op = "startup" =>
            /\ isAuthenticated = (getItem(localStorage, "isAuthenticated") = Str("true"))
            /\ sent = IF isAuthenticated THEN LoadRequests(localStorage) ELSE {}
            /\ \A request \in sent : request.url.path \in
                    {ResourcePaths[r] : r \in Resources})
    /\ (loading =>
            /\ ~isAuthenticated
            /\ sent = {}
            /\ \A i \in 1..MaxTasks : tasks[i] = Idle)

\* Startup found a token but no flag in storage and left the session
\* unauthenticated, sending nothing.
C19_Witness ==
    /\ event.op = "startup"
    /\ "authToken" \in DOMAIN localStorage
    /\ "isAuthenticated" \notin DOMAIN localStorage
    /\ ~isAuthenticated
    /\ sent = {}

\* A URL-list request is superseded once the cursor has moved off its page:
\* only handleUrlPageChange moves the cursor, and it sends a newer request.
Superseded(task) == task.page # currentUrlPage

\* C16: the controller changes a list only by setting it to the content of
\* a successful response to a request that has not been superseded: a failed
\* fetch and a late response of a superseded request leave every list as it
\* was, and no other step touches a list.
C16_ListsFollowLastResponse ==
    [][/\ (event'.op = "load" /\ event'.phase = "lists") =>
            /\ projects' = IF Is2xx(event'.got.projects)
                           THEN Tolerated(event'.got.projects) ELSE projects
            /\ skills' = IF Is2xx(event'.got.skills)
                         THEN Tolerated(event'.got.skills) ELSE skills
            /\ messages' = IF Is2xx(event'.got.messages)
                           THEN Tolerated(event'.got.messages) ELSE messages
            /\ urls' = urls
       /\ event'.op = "urls" =>
            /\ urls' = IF Is2xx(event'.got) /\ ~Superseded(event'.task)
                       THEN Arr(PageRecords(event'.task.page)) ELSE urls
            /\ UNCHANGED <<projects, skills, messages>>
       /\ event'.op \notin {"load", "urls"} =>
            UNCHANGED <<projects, skills, messages, urls>>]_vars

\* C24: a URL-list request in flight is never dropped, and the 2xx response
\* of every one of them, superseded or not, becomes the URL list and the
\* pagination record.
C24_LateResultOverwrites ==
    /\ [][\A i \in 1..MaxTasks :
            (tasks[i].op = "urls" /\ tasks'[i] # tasks[i]) =>
                /\ tasks'[i] = Idle
                /\ event'.op = "urls" /\ event'.task = tasks[i]]_vars
    /\ [][(event'.op = "urls" /\ event'.resp = "2xx") =>
            /\ urls' = Arr(PageRecords(event'.task.page))
            /\ urlPagination'.currentPage = Num(event'.task.page)]_vars

\* Page 2 was requested, then page 1; the answer for page 2 came last, and
\* with nothing left in flight page 2 is displayed under the cursor on 1.
C24_Witness ==
    /\ event.op = "urls" /\ event.resp = "2xx"
    /\ HandlerOf(event.task) = "pageChange" /\ event.task.page = 2
    /\ currentUrlPage = 1
    /\ urls = Arr(PageRecords(2))
    /\ urlPagination.currentPage = Num(2)
    /\ \A i \in 1..MaxTasks : tasks[i] = Idle

---------------------------------------------------------------------------
(* Properties of the mutation handlers (SpecData).                         *)

ListPaths == {"/portfolio/projects", "/portfolio/skills", "/portfolio/contact"}
OfProjectOrSkill(task) ==
    HandlerOf(task) \in ProjectHandlers \cup SkillHandlers

\* C13: a project or skill handler whose API call succeeded sends the three
\* list requests, at their join the URL-list request, and completes only
\* when that one has settled; a handler ends at its API call only when the
\* call threw.
C13_FullReloadBeforeCompletion ==
    /\ [][\A i \in 1..MaxTasks :
            (OfProjectOrSkill(tasks[i]) /\ tasks[i].op = "mutate"
               /\ tasks'[i].op # "mutate") =>
                IF event'.threw
                THEN tasks'[i] = Idle
                ELSE /\ tasks'[i].op = "load"
                     /\ tasks'[i].h = tasks[i].h
                     /\ PathsOf(sent') = ListPaths]_vars
    /\ [][\A i \in 1..MaxTasks :
            (OfProjectOrSkill(tasks[i]) /\ tasks[i].op = "load"
               /\ tasks'[i].op # "load") =>
                /\ tasks'[i].op = "urls"
                /\ tasks'[i].h = tasks[i].h
                /\ PathsOf(sent') = {"/url"}]_vars
    /\ [][\A i \in 1..MaxTasks :
            (OfProjectOrSkill(tasks[i]) /\ tasks'[i] = Idle) =>
                \/ tasks[i].op = "urls" /\ event'.op = "urls"
                \/ tasks[i].op = "mutate" /\ event'.threw]_vars

\* handleAddProject has completed, and the list shows the created project.
C13_Witness ==
    /\ event.op = "urls"
    /\ HandlerOf(event.task) = "handleAddProject"
    /\ projects = Arr(Listing(MaxRecords + 1))
    /\ \A i \in 1..MaxTasks : tasks[i] = Idle

\* C17: at the join of the reload that follows a successful project delete
\* the project list is set to what that getAll returned, which does not hold
\* the deleted project; and when the reload has completed, the deleted
\* project is absent from the list whose length the overview counts.
C17_DeletedProjectAbsent ==
    /\ [][(event'.op = "load"
             /\ HandlerOf(event'.task) = "handleDeleteProject") =>
            /\ projects' = Tolerated(event'.got.projects)
            /\ event'.task.id \notin RowIds(projects')]_vars
    /\ []((event.op = "urls"
             /\ HandlerOf(event.task) = "handleDeleteProject") =>
            event.task.id \notin RowIds(projects))

---------------------------------------------------------------------------
(* Properties of the URL screen and the URL handlers (SpecUrl).            *)

\* C14: when the API call of a URL handler has succeeded, the one request
\* sent is the URL list for the page that currentUrlPage holds at that
\* moment, and the three other lists and the cursor stay as they are.
C14_ReloadsCurrentUrlPage ==
    [][(/\ event'.op = "mutation" /\ event'.phase = "end" /\ ~event'.threw
        /\ event'.task.h \in UrlHandlers) =>
            /\ sent' = {UrlsRequest(currentUrlPage, localStorage)}
            /\ UNCHANGED <<projects, skills, messages, currentUrlPage>>]_vars

\* C18: no update or delete call goes out for a record that the URL list
\* shows as deleted, and a list taken from a 2xx response keeps the records
\* flagged as deleted and counts them in totalItems.
C18_DeletedUrlImmutable ==
    /\ (event.op = "mutation" /\ event.phase = "call"
          /\ event.task.h \in {"handleUpdateUrl", "handleDeleteUrl"}) =>
            ~ShownDeleted(event.task.id)
    /\ (event.op = "urls" /\ event.resp = "2xx") =>
            /\ ShownIds = PageIds(event.task.page)
            /\ urlPagination.totalItems = Num(Len(urls.a))

\* The operations in flight that the mounted screen instance started.
LiveTasks == {i \in 1..MaxTasks : "live" \in DOMAIN tasks[i] /\ tasks[i].live}
DeleteInFlight(i) == HandlerOf(tasks[i]) = "handleDeleteUrl"

\* C25 as claimed: the URL screen does not lock out its actions while one of
\* its deletes is in flight.
C25_NoMutualExclusion ==
    (UrlScreenShown /\ \E i \in LiveTasks : DeleteInFlight(i)) => ~screen.busy

\* C25, amended: a mounted screen has at most one of its own operations in
\* flight, and its loading flag is set for as long as that one is.
C25_OneOperationPerScreen ==
    /\ Cardinality(LiveTasks) <= 1
    /\ LiveTasks # {} => screen.busy

\* Two deletes for different rows are in flight: one started by the screen
\* that is mounted, the other by an instance that was unmounted since.
C25_Witness ==
    \E i \in LiveTasks, j \in 1..MaxTasks \ LiveTasks :
        /\ DeleteInFlight(i) /\ DeleteInFlight(j)
        /\ tasks[i].id # tasks[j].id
        /\ UrlScreenShown /\ screen.busy

\* C29: a loading flag that is set is cleared again when every network call
\* settles, and it is set only while an operation that the mounted screen
\* started is in flight.
C29_LoadingCleared ==
    /\ screen.busy ~> ~screen.busy
    /\ [](screen.busy => LiveTasks # {})

\* A delete that the mounted project screen started has failed, and the
\* screen is no longer loading.
C29_Witness ==
    /\ event.op = "mutation" /\ event.phase = "end" /\ event.threw
    /\ event.task.h = "handleDeleteProject" /\ event.task.live
    /\ activeSection = "projects" /\ ~screen.busy

---------------------------------------------------------------------------
(* Properties of the image form (SpecForm).                                *)

\* C10: every preview URL created for a selected file is revoked exactly
\* once, no later than when it stops being the form's preview: none is left
\* unrevoked and none is revoked twice.
C10_PreviewRevokedOnce ==
    \A k \in 1..Len(blobs) :
        /\ blobs[k] <= 1
        /\ blobs[k] = 0 => form.preview = BlobUrl(k)

\* Whether a request is sent as a multipart form, that is with a FormData
\* body and no Content-Type of its own, or as JSON.
SentAsMultipart(request) ==
    /\ request.init.body.t = "FormData"
    /\ "Content-Type" \notin DOMAIN request.init.headers
SentAsJson(request) ==
    /\ request.init.body.t = "string"
    /\ "Content-Type" \in DOMAIN request.init.headers
    /\ request.init.headers["Content-Type"] = "application/json"

---------------------------------------------------------------------------
(* Claims about the URL form and the requests it sends.                    *)

\* The create and the update request of short URLs, and the field names of
\* a JSON body.
UrlCreate(request) ==
    /\ "method" \in DOMAIN request.init /\ request.init.method = "POST"
    /\ request.url.path = "/url"
UrlUpdate(request) ==
    /\ "method" \in DOMAIN request.init /\ request.init.method = "PUT"
    /\ request.url.path = "/url"
JsonFields(request) == DOMAIN request.init.body.json.p

\* C21 as claimed: a URL create request carries a JSON body with exactly
\* the field fullUrl, and a URL update request a JSON body with the fields
\* fullUrl and shortCode, shortCode being a short code the user can have
\* entered.
C21_UrlBodies ==
    \A request \in sent :
        /\ UrlCreate(request) =>
               SentAsJson(request) /\ JsonFields(request) = {"fullUrl"}
        /\ UrlUpdate(request) =>
               /\ SentAsJson(request)
               /\ {"fullUrl", "shortCode"} \subseteq JsonFields(request)
               /\ Get(request.init.body.json, "shortCode")
                     \in {Str(code) : code \in ShortCodes}

\* A step that is a submit of a form that fails validation: an empty or
\* unparseable fullUrl on the URL screen, an empty required field on the
\* project and skill screens.
InvalidSubmit ==
    \/ \E fullUrl \in UrlTexts, shortenUrl \in ShortCodes :
          /\ fullUrl = "" \/ ~ParsesAsUrl(fullUrl)
          /\ UrlSubmit(fullUrl, shortenUrl)
    \/ \E h \in SubmitHandlers, id \in 0..(MaxRecords + MaxCreated) :
          \E texts \in FormTexts(h) :
              ~Filled(texts) /\ ScreenSubmit(h, id, texts)
ValidationMessages ==
    [urls     |-> {"Please enter a URL to shorten", "Please enter a valid URL"},
     projects |-> {"Please fill in all required fields"},
     skills   |-> {"Please enter a skill name"}]

\* C22: a submit of a form that fails validation sets the error message of
\* its screen, sends no request, starts no handler, leaves the loading flag
\* unset and leaves the dialog as it is: open, on the URL screen.
C22_ValidationBeforeNetwork ==
    [][InvalidSubmit =>
          /\ screen'.error \in ValidationMessages[activeSection]
          /\ sent' = {}
          /\ tasks' = tasks /\ server' = server
          /\ ~screen'.busy
          /\ screen'.open = screen.open
          /\ activeSection = "urls" => screen'.open]_vars

\* A form with an unparseable fullUrl was submitted on the URL screen.
C22_Witness ==
    /\ event.op = "screen" /\ event.phase = "invalid"
    /\ activeSection = "urls"
    /\ screen.error = "Please enter a valid URL"
    /\ screen.open /\ ~screen.busy
    /\ sent = {}

\* A step that is a delete whose confirmation was declined, and a step
\* that sends a DELETE request.
DeclinedDelete ==
    \/ \E id \in UrlIds : UrlDelete(id, FALSE)
    \/ \E h \in DeleteHandlers, id \in 1..(MaxRecords + MaxCreated) :
          ScreenDelete(h, id, FALSE)
ConfirmedDelete(request) ==
    \/ /\ request.url.path = "/url"
       /\ UrlDelete(request.url.id, TRUE)
    \/ \E h \in DeleteHandlers :
          /\ request.url.path = ResourcePath(ResourceOf(h))
          /\ ScreenDelete(h, request.url.id, TRUE)
IsDelete(request) ==
    "method" \in DOMAIN request.init /\ request.init.method = "DELETE"

\* C23: a DELETE request is sent only by a delete that was confirmed for
\* the record it names, and a delete that was declined sends nothing, does
\* not set the loading flag and changes no state.
C23_DeleteAfterConfirm ==
    [][/\ \A request \in sent' : IsDelete(request) => ConfirmedDelete(request)
       /\ DeclinedDelete =>
             /\ sent' = {}
             /\ ~screen'.busy
             /\ UNCHANGED <<localStorage, isAuthenticated, activeSection,
                            loading, listVars, currentUrlPage, tasks,
                            sessionToken, server, screen>>]_vars

\* A delete of a project was declined while the projects screen showed an
\* error from before.
C23_Witness ==
    /\ event.op = "screen" /\ event.phase = "declined"
    /\ activeSection = "projects"
    /\ screen.error = "Failed to delete project"
    /\ ~screen.busy /\ sent = {}

\* A step in which the API call of mutation handler i fails: the fetch is
\* rejected or the status is not 2xx.
FailedMutation(i) ==
    \E response \in MutationResponses :
        ~Is2xx(response) /\ MutationSettle(i, response)

\* C26: when the API call of a create, update or delete fails, the handler
\* ends without a reload, the lists, the pagination record and the page
\* cursor stay as they are, and the screen that called, while it is
\* mounted, takes the failure as its error message, clears its loading flag
\* and leaves its dialog as it is.
C26_FailureLeavesData ==
    [][\A i \in 1..MaxTasks :
          FailedMutation(i) =>
             /\ sent' = {}
             /\ tasks'[i] = Idle
             /\ UNCHANGED <<listVars, currentUrlPage>>
             /\ tasks[i].live =>
                   /\ screen'.error \in {FailureOf(tasks[i].h), "TypeError"}
                   /\ ~screen'.busy
                   /\ screen'.open = screen.open
                   /\ screen'.editing = screen.editing
             /\ ~tasks[i].live => screen' = screen]_vars

\* An update of a short URL was refused with a non-2xx status while its
\* dialog was open.
C26_Witness ==
    /\ event.op = "mutation" /\ event.phase = "end"
    /\ event.resp = "non2xx" /\ event.threw
    /\ event.task.h = "handleUpdateUrl" /\ event.task.live
    /\ screen.open /\ screen.editing # 0 /\ ~screen.busy
    /\ screen.error = "Failed to update URL"
    /\ sent = {}

---------------------------------------------------------------------------
(* Claims about the session while resource calls are under way.            *)

\* The stored session: the token and the durable flag.
StoredSession == <<getItem(localStorage, "authToken"),
                   getItem(localStorage, "isAuthenticated")>>

\* C27: the in-memory authenticated flag, the durable flag and the stored
\* token change in steps of handleLogin and handleLogout only; the end of a
\* list call, of a reload or of a create, update or delete leaves them as
\* they are, whatever the answer.
C27_SessionByLoginAndLogout ==
    [][/\ (isAuthenticated' # isAuthenticated \/ StoredSession' # StoredSession)
           => event'.op \in {"login", "logout"}
       /\ event'.op \in {"load", "urls", "mutation"}
           => UNCHANGED <<isAuthenticated, localStorage>>]_vars

\* A page of short URLs was refused with a non-2xx status and the session
\* is as it was.
C27_Witness ==
    /\ event.op = "urls" /\ event.resp = "non2xx"
    /\ urls = EmptyArr
    /\ isAuthenticated
    /\ StoredSession = <<Str("tokA"), Str("true")>>

\* The paths of the resource requests.
ResourceRequestPaths == ListPaths \cup {"/url"}

\* C28 as claimed: while the controller is not authenticated, after a
\* logout and before the next successful login, no step sends a resource
\* request and no step overwrites a resource list.
C28_NoResourceCallsLoggedOut ==
    [][(~isAuthenticated /\ ~isAuthenticated') =>
          /\ PathsOf(sent') \cap ResourceRequestPaths = {}
          /\ UNCHANGED listVars]_vars

=============================================================================
